---- MODULE Spec2Model ----
(***************************************************************************)
(* State-machine model of UltimateSMM_Bot's core:                          *)
(*   CORE_SYSTEM/scheduler.py       AutomationScheduler                    *)
(*   CORE_SYSTEM/safety_monitor.py  SafetyMonitor                          *)
(* Wall-clock time is the variable now, in whole seconds since midnight of *)
(* day 0.  Sleeps advance it; the clock strings ("%H:%M",         *)
(* "%Y-%m-%d %H:%M:%S") are modelled as the tuples of their fields, and    *)
(* string comparison of zero-padded fields as lexicographic comparison.    *)
(***************************************************************************)
EXTENDS Integers, Sequences, FiniteSets, TLC

VARIABLES
    now,                  \* datetime.now(), seconds
    auto_schedule_file,   \* CONFIG/auto_schedule.json: NoFile or a config
    is_running,           \* AutomationScheduler.is_running
    break_mode,           \* AutomationScheduler.break_mode
    last_break_time,      \* AutomationScheduler.last_break_time (None or a time)
    tasks,                \* AutomationScheduler.tasks: sequence of task records
    pc,                   \* position of the thread inside start(): idle|loop|break|done
    start_time,           \* local start_time of start()
    remaining,            \* loop variable of take_break's countdown
    dispatched,           \* task indices whose function the latest step invoked, in order
    raised,               \* those of them whose function raised
    invoked_at,           \* per task, when its function was last invoked (None: never)
    task_cursor,          \* task the for loop of run_tasks is at (0: not in the loop)
    current_time,         \* local current_time of run_tasks
    in_function,          \* tasks whose function has been called and has not ended
    task_events,          \* calls, returns and raises of this run_tasks, in order
    due_at_begin,         \* tasks that were due when this run_tasks began
    safety_rules_file,    \* CONFIG/safety_rules.json: NoFile or a rules record
    safety_log,           \* SafetyMonitor.safety_log
    suspicious_activities,\* SafetyMonitor.suspicious_activities
    safety_events,        \* LOGS/safety_events.json: events saved by the safety protocol
    monitoring,           \* SafetyMonitor.monitoring
    next_id,              \* number of log_activity calls since construction
    monitor_threads,      \* threads of start_monitoring inside monitor_loop
    report,               \* what the latest get_safety_report call returned
    ran_tasks,            \* run_tasks() was called since start() or the latest break began
    obs_pc,               \* position of a thread inside log_activity: idle|appended|trimmed
    rep_pc,               \* position of the monitor thread in its iteration
    report_draft,         \* local report of get_safety_report, being built
    api_pc,               \* position inside make_request: idle|attempt
    request,              \* the arguments of the latest make_request call
    attempt,              \* loop variable of make_request
    response,             \* local response of make_request: its status code
    attempts,             \* results of the transport calls of that make_request
    backoffs,             \* arguments of its time.sleep calls, in order
    outcome,              \* what the latest make_request returned
    social_request,       \* the arguments of the latest execute_social_action call
    simulate_calls,       \* simulate_*_action calls made by that call
    social_outcome,       \* what it returned
    api_calls,            \* number of APIClient calls since construction
    batch_actions,        \* the argument of the latest batch_execute_actions call
    batch_index,          \* how many of them its for loop has taken
    results,              \* local results of batch_execute_actions
    batch_outcome         \* what the latest batch_execute_actions returned

runStepVars == <<task_cursor, current_time, in_function, task_events,
                 due_at_begin>>
runVars == <<runStepVars, ran_tasks>>
schedVars == <<auto_schedule_file, is_running, break_mode, last_break_time,
               tasks, pc, start_time, remaining, dispatched, raised, invoked_at,
               runVars>>
monLoopVars == <<monitor_threads, report>>
stepVars == <<obs_pc, rep_pc, report_draft>>
monVars == <<safety_rules_file, safety_log, suspicious_activities,
             safety_events, monitoring, next_id, monLoopVars, stepVars>>
schedVars_but_dispatch == <<auto_schedule_file, is_running, break_mode,
                            last_break_time, tasks, pc, start_time, remaining,
                            invoked_at, runVars>>
batchVars == <<batch_actions, batch_index, results, batch_outcome>>
apiVars == <<api_pc, request, attempt, response, attempts, backoffs, outcome,
             social_request, simulate_calls, social_outcome, api_calls,
             batchVars>>
vars == <<now, schedVars, monVars, apiVars>>

----------------------------------------------------------------------------
(* Bounds of the model. *)

\* minutes of wall-clock time explored after construction
MaxMinutes == 6
\* most tasks registered
MaxTasks == 2
\* most log_activity calls since construction
MaxObs == 12
\* hours of wall-clock time explored by the monitor alone
MaxHours == 2
\* log_activity calls explored where the log's cap of 1000 is reached
RingObs == 1003
\* log_activity calls explored where the report's high-activity mark is reached
BurstObs == 52
\* hours of wall-clock time explored with such bursts
BurstHours == 1
\* most retries given to make_request
MaxRetries == 3
\* calls of the API client's methods since construction
MaxCalls == 2
\* at most this many actions in a batch
MaxBatch == 2
\* minutes of the scenario that follows run_tasks call by call
TaskMinutes == 4
\* observations, monitor threads and minutes of the monitor-loop scenario
LoopObs == 4
MaxThreads == 1
LoopMinutes == 2
StepObs == 4
\* minutes of the scenario of breaks and tasks
StarveMinutes == 9
\* minutes of the day-long scenario, and the latest minute of its start()
OvernightMinutes == 1445
MaxStartDelay == 4
\* observations of the scenario with a rewritten rules file
DegradeObs == 11
StepMinutes == 1
\* minutes that may pass between construction and the call of start()
MaxBootDelay == 2
\* minutes of wall-clock time explored where a break of the defaults is taken
LongMinutes == 82

\* Python's None for a time that is not set
None == -1

\* the configuration file does not exist (open() raises)
NoFile == [exists |-> FALSE]
UnreadableFile == [exists |-> TRUE, readable |-> FALSE]

\* the method has not been called yet
NoRequest == [called |-> FALSE]

\* the method has not returned yet
NoReturn == [returned |-> FALSE]

----------------------------------------------------------------------------
(* Clock strings. *)

SecondsPerMinute == 60
SecondsPerHour == 3600
SecondsPerDay == 86400

\* datetime.now().strftime("%H:%M")
ClockHHMM(t) == <<(t % SecondsPerDay) \div SecondsPerHour,
                  (t % SecondsPerHour) \div SecondsPerMinute>>

\* a <= b for two "HH:MM" strings
HHMMLeq(a, b) == a[1] < b[1] \/ (a[1] = b[1] /\ a[2] <= b[2])

----------------------------------------------------------------------------
(* Scheduler configuration. *)

\* get_default_config()
DefaultConfig ==
    [operational_hours |-> [start_time |-> <<6, 0>>, end_time |-> <<23, 0>>,
                            enabled |-> TRUE],
     break_schedule |-> << [after_minutes |-> 60, break_minutes |-> 15,
                            enabled |-> TRUE] >>]

\* the moment the process is constructed: 05:58:00 of day 0
BootTime == 5 * SecondsPerHour + 58 * SecondsPerMinute

\* a file with the break rule of the defaults and a window that opens more
\* than an hour after construction
LateWindowSchedule ==
    [operational_hours |-> [start_time |-> <<7, 0>>, end_time |-> <<23, 0>>,
                            enabled |-> TRUE],
     break_schedule |-> << [after_minutes |-> 60, break_minutes |-> 15,
                            enabled |-> TRUE] >>]

\* a file whose window passes midnight: it starts later than it ends
OvernightSchedule ==
    [operational_hours |-> [start_time |-> <<22, 0>>, end_time |-> <<6, 0>>,
                            enabled |-> TRUE],
     break_schedule |-> << [after_minutes |-> 60, break_minutes |-> 15,
                            enabled |-> TRUE] >>]

\* files with the window disabled and break rules of one minute and more:
\* a break a minute after each minute of work, a break of no length, and
\* several rules of which one is disabled
BreakFiles ==
    { [operational_hours |-> [start_time |-> <<6, 0>>, end_time |-> <<23, 0>>,
                              enabled |-> FALSE],
       break_schedule |-> << [after_minutes |-> 1, break_minutes |-> 1,
                              enabled |-> TRUE] >>],
      [operational_hours |-> [start_time |-> <<6, 0>>, end_time |-> <<23, 0>>,
                              enabled |-> FALSE],
       break_schedule |-> << [after_minutes |-> 2, break_minutes |-> 0,
                              enabled |-> TRUE] >>],
      [operational_hours |-> [start_time |-> <<6, 0>>, end_time |-> <<23, 0>>,
                              enabled |-> FALSE],
       break_schedule |-> << [after_minutes |-> 1, break_minutes |-> 1,
                              enabled |-> FALSE],
                             [after_minutes |-> 3, break_minutes |-> 1,
                              enabled |-> TRUE],
                             [after_minutes |-> 3, break_minutes |-> 2,
                              enabled |-> TRUE] >>] }

\* contents CONFIG/auto_schedule.json is given in the model
ScheduleFiles ==
    { [operational_hours |-> [start_time |-> <<6, 0>>, end_time |-> <<6, 3>>,
                              enabled |-> TRUE],
       break_schedule |-> << [after_minutes |-> 2, break_minutes |-> 2,
                              enabled |-> TRUE] >>],
      [operational_hours |-> [start_time |-> <<6, 0>>, end_time |-> <<23, 0>>,
                              enabled |-> FALSE],
       break_schedule |-> << [after_minutes |-> 1, break_minutes |-> 1,
                              enabled |-> FALSE],
                             [after_minutes |-> 3, break_minutes |-> 1,
                              enabled |-> TRUE],
                             [after_minutes |-> 3, break_minutes |-> 2,
                              enabled |-> TRUE] >>],
      LateWindowSchedule }

\* defect: the defaults only for a missing file; a file that cannot be read
\* taken as a configuration with no window and no break
load_config_EmptyWhenUnreadable ==
    IF auto_schedule_file = NoFile THEN DefaultConfig
    ELSE IF auto_schedule_file = UnreadableFile
         THEN [operational_hours |-> [start_time |-> <<0, 0>>,
                                      end_time |-> <<0, 0>>,
                                      enabled |-> FALSE],
               break_schedule |-> <<>>]
         ELSE auto_schedule_file

\* dict.update(): the keys of the second dict replace those of the first
DictUpdate(dict, other) ==
    [key \in DOMAIN dict \cup DOMAIN other |->
        IF key \in DOMAIN other THEN other[key] ELSE dict[key]]

\* the arguments given to update_auto_schedule: the window of the settings
\* manager's own test, which names no 'enabled', and windows without times
NewSchedules ==
    { [operational_hours |-> [start_time |-> <<7, 0>>, end_time |-> <<22, 0>>]],
      [operational_hours |-> [enabled |-> TRUE]],
      [operational_hours |-> [enabled |-> TRUE, start_time |-> <<7, 0>>]] }

\* load_config(): the file's content, the defaults if it cannot be read
load_config == IF auto_schedule_file \in {NoFile, UnreadableFile}
               THEN DefaultConfig
               ELSE auto_schedule_file

\* defect: the end of the window compared with <, so excluded
is_within_operational_hours_EndExclusive ==
    LET config == load_config IN
    IF ~config.operational_hours.enabled THEN TRUE
    ELSE /\ HHMMLeq(config.operational_hours.start_time, ClockHHMM(now))
         /\ ~HHMMLeq(config.operational_hours.end_time, ClockHHMM(now))

\* the subscripts of is_within_operational_hours() raise no KeyError:
\* 'enabled' is read first, the two times only if it is true
WindowReadable(config) ==
    /\ "operational_hours" \in DOMAIN config
    /\ "enabled" \in DOMAIN config.operational_hours
    /\ config.operational_hours.enabled
         => {"start_time", "end_time"} \subseteq DOMAIN config.operational_hours

\* defect: the except branch answering False, outside the hours
is_within_operational_hours_ClosedOnError ==
    LET config == load_config IN
    IF ~WindowReadable(config) THEN FALSE
    ELSE IF ~config.operational_hours.enabled THEN TRUE
    ELSE /\ HHMMLeq(config.operational_hours.start_time, ClockHHMM(now))
         /\ HHMMLeq(ClockHHMM(now), config.operational_hours.end_time)

\* defect: a window that starts later than it ends taken as passing midnight
is_within_operational_hours_WrapAround ==
    LET config == load_config IN
    IF ~WindowReadable(config) THEN TRUE
    ELSE IF ~config.operational_hours.enabled THEN TRUE
    ELSE IF HHMMLeq(config.operational_hours.start_time,
                    config.operational_hours.end_time)
    THEN /\ HHMMLeq(config.operational_hours.start_time, ClockHHMM(now))
         /\ HHMMLeq(ClockHHMM(now), config.operational_hours.end_time)
    ELSE \/ HHMMLeq(config.operational_hours.start_time, ClockHHMM(now))
         \/ HHMMLeq(ClockHHMM(now), config.operational_hours.end_time)

\* is_within_operational_hours(): its except branch answers True
is_within_operational_hours ==
    LET config == load_config IN
    IF ~WindowReadable(config) THEN TRUE
    ELSE IF ~config.operational_hours.enabled THEN TRUE
    ELSE /\ HHMMLeq(config.operational_hours.start_time, ClockHHMM(now))
         /\ HHMMLeq(ClockHHMM(now), config.operational_hours.end_time)

\* config.get('break_schedule', [])
BreakSchedules(config) ==
    IF "break_schedule" \in DOMAIN config THEN config.break_schedule ELSE <<>>

\* defect: the running time compared with >, so a break one minute late
BreakRuleMatches_StrictlyAfter(schedule, st) ==
    /\ schedule.enabled
    /\ now - st > schedule.after_minutes * SecondsPerMinute
    /\ \/ last_break_time = None
       \/ now - last_break_time >= schedule.after_minutes * SecondsPerMinute

\* the condition of should_take_break's loop for one schedule
BreakRuleMatches(schedule, st) ==
    /\ schedule.enabled
    /\ now - st >= schedule.after_minutes * SecondsPerMinute
    /\ \/ last_break_time = None
       \/ now - last_break_time >= schedule.after_minutes * SecondsPerMinute

\* defect: the loop going on after a hit, so the last matching schedule
should_take_break_LastMatch(st) ==
    IF break_mode THEN 0
    ELSE LET break_schedules == BreakSchedules(load_config)
             hits == {i \in 1..Len(break_schedules) :
                        BreakRuleMatches(break_schedules[i], st)}
         IN IF hits = {} THEN 0
            ELSE CHOOSE i \in hits : \A j \in hits : i >= j

\* should_take_break(start_time): the index of the schedule returned,
\* 0 for False (already on break) and for None (no schedule matches)
should_take_break(st) ==
    IF break_mode THEN 0
    ELSE LET break_schedules == BreakSchedules(load_config)
             hits == {i \in 1..Len(break_schedules) :
                        BreakRuleMatches(break_schedules[i], st)}
         IN IF hits = {} THEN 0
            ELSE CHOOSE i \in hits : \A j \in hits : i <= j

----------------------------------------------------------------------------
(* Tasks. *)

\* the (task_name, interval_minutes) pairs given to add_task
Registrations == {<<"sync", 3>>, <<"backup", 1>>}

\* the (task_name, interval_minutes) pairs given to add_task where the
\* registry itself is examined: a name given twice, an interval of zero and
\* a negative one
RegistryInputs == {<<"sync", 3>>, <<"sync", 1>>, <<"backup", 0>>, <<"report", -5>>}

\* the condition of run_tasks for one task, run_tasks having read the clock
\* at time t
TaskDue(task, t) ==
    \/ task.last_run = None
    \/ t - task.last_run >= task.interval * SecondsPerMinute

\* the subsequence of 1..n whose members satisfy Test, in order
RECURSIVE IndicesWhere(_, _)
IndicesWhere(n, S) ==
    IF n = 0 THEN <<>>
    ELSE IF n \in S THEN Append(IndicesWhere(n - 1, S), n)
         ELSE IndicesWhere(n - 1, S)

\* defect: run_tasks() without its break_mode test
TasksToRun_IgnoringBreak ==
    IF ~is_within_operational_hours THEN <<>>
    ELSE IndicesWhere(Len(tasks), {i \in 1..Len(tasks) : TaskDue(tasks[i], now)})

\* the tasks run_tasks() invokes, in order: none while on break or outside
\* the operational hours, else every task that is due
TasksToRun ==
    IF break_mode \/ ~is_within_operational_hours THEN <<>>
    ELSE IndicesWhere(Len(tasks), {i \in 1..Len(tasks) : TaskDue(tasks[i], now)})

\* defect: last_run assigned outside the due test, for every task looped over
TasksAfterRun_EveryTask(run, failing) ==
    [i \in 1..Len(tasks) |->
        IF i \notin failing THEN [tasks[i] EXCEPT !.last_run = now]
        ELSE tasks[i]]

\* the task list after run_tasks() invoked the tasks of run, those of
\* failing raising: last_run is assigned after the function returned
TasksAfterRun(run, failing) ==
    [i \in 1..Len(tasks) |->
        IF (\E k \in 1..Len(run) : run[k] = i) /\ i \notin failing
        THEN [tasks[i] EXCEPT !.last_run = now]
        ELSE tasks[i]]

SeqToSet(s) == {s[k] : k \in 1..Len(s)}

\* defect: the try around the whole for loop, so the first raise ends it
InvokedTasks_AbortOnRaise(due, failing) ==
    LET stops == {k \in 1..Len(due) : due[k] \in failing}
    IN IF stops = {} THEN due
       ELSE SubSeq(due, 1, CHOOSE k \in stops : \A j \in stops : k <= j)

\* the tasks of due whose function run_tasks() invokes when those of failing
\* raise: the try is inside the for loop, so all of them
InvokedTasks(due, failing) == due


----------------------------------------------------------------------------
(* Safety monitor: rules, timestamps, the trailing hour. *)

\* get_default_rules(), the fields the monitor reads
DefaultRules ==
    [safety_measures |-> [suspicious_activity_threshold |-> 10,
                          auto_suspend_on_detection |-> TRUE]]

\* contents CONFIG/safety_rules.json is given in the model
RulesFiles ==
    { [safety_measures |-> [suspicious_activity_threshold |-> 2,
                            auto_suspend_on_detection |-> TRUE]],
      [safety_measures |-> [suspicious_activity_threshold |-> 3,
                            auto_suspend_on_detection |-> FALSE]],
      [safety_measures |-> [suspicious_activity_threshold |-> 60,
                            auto_suspend_on_detection |-> TRUE]] }

\* the arguments given to update_safety_rules: limits only, and safety
\* measures that name one of the two fields
NewRules ==
    { [operation_limits |-> [max_actions_per_hour |-> 20]],
      [safety_measures |-> [auto_suspend_on_detection |-> FALSE]],
      [safety_measures |-> [suspicious_activity_threshold |-> 2]] }

\* load_safety_rules(): the file's content, the defaults if it cannot be read
load_safety_rules == IF safety_rules_file \in {NoFile, UnreadableFile}
                     THEN DefaultRules
                     ELSE safety_rules_file

\* datetime.now().strftime("%Y-%m-%d %H:%M:%S"): <<day, hour, minute, second>>
FormatTimestamp(t) ==
    <<t \div SecondsPerDay,
      (t % SecondsPerDay) \div SecondsPerHour,
      (t % SecondsPerHour) \div SecondsPerMinute,
      t % SecondsPerMinute>>

\* datetime.strptime(ts, '%Y-%m-%d %H:%M:%S')
ParseTimestamp(ts) ==
    ts[1] * SecondsPerDay + ts[2] * SecondsPerHour + ts[3] * SecondsPerMinute + ts[4]

\* defect: every entry counted, whatever its age
RecentActivities_WholeLog(log, t) == 1..Len(log)

\* the positions of log whose entries are less than timedelta(hours=1) old at t
RecentActivities(log, t) ==
    {i \in 1..Len(log) : t - ParseTimestamp(log[i].timestamp) < SecondsPerHour}

\* self.safety_log[-1000:] when longer than 1000
MaxLogSize == 1000

\* defect: the slice [:1000], which keeps the oldest entries
KeepLast_KeepFirst(log) ==
    IF Len(log) > MaxLogSize THEN SubSeq(log, 1, MaxLogSize) ELSE log

\* self.safety_log[-1000:] when longer than 1000
KeepLast(log) ==
    IF Len(log) > MaxLogSize
    THEN SubSeq(log, Len(log) - MaxLogSize + 1, Len(log))
    ELSE log

\* the record check_suspicious_activity appends
SuspiciousActivity(count) ==
    [detected_at |-> FormatTimestamp(now),
     type |-> "high_frequency_activity",
     activities_count |-> count,
     recommendation |-> "Suspend operations temporarily"]

\* the event trigger_safety_protocol saves
SafetyEvent ==
    [timestamp |-> FormatTimestamp(now),
     event |-> "safety_protocol_activated",
     action |-> "temporary_suspension",
     duration_minutes |-> 30]

\* defect: the two tests as if/elif, so the first one wins
safety_status_FirstWins ==
    IF Len(suspicious_activities) > 0 THEN "attention_required"
    ELSE IF Cardinality(RecentActivities(safety_log, now)) > 50
         THEN "high_activity" ELSE "normal"

\* defect: the status from the trailing hour alone
safety_status_ByRateOnly ==
    IF Cardinality(RecentActivities(safety_log, now)) > 50
    THEN "high_activity" ELSE "normal"

\* report["safety_status"] of get_safety_report(): the second test overwrites
\* the first
safety_status ==
    LET first == IF Len(suspicious_activities) > 0 THEN "attention_required"
                 ELSE "normal"
    IN IF Cardinality(RecentActivities(safety_log, now)) > 50
       THEN "high_activity" ELSE first

\* defect: the slice [:5], the five oldest suspicious activities
get_safety_report_FirstFive ==
    [total_activities_monitored |-> Len(safety_log),
     suspicious_activities_detected |-> Len(suspicious_activities),
     recent_suspicious_activities |->
        SubSeq(suspicious_activities, 1,
               IF Len(suspicious_activities) > 5
               THEN 5 ELSE Len(suspicious_activities)),
     safety_status |-> safety_status]

\* get_safety_report()
get_safety_report ==
    [total_activities_monitored |-> Len(safety_log),
     suspicious_activities_detected |-> Len(suspicious_activities),
     recent_suspicious_activities |->
        SubSeq(suspicious_activities,
               IF Len(suspicious_activities) > 5
               THEN Len(suspicious_activities) - 4 ELSE 1,
               Len(suspicious_activities)),
     safety_status |-> safety_status]

----------------------------------------------------------------------------
(* Initial state: after AutomationScheduler() and SafetyMonitor(). *)

\* the fields of the objects and the model's records of their calls,
\* whatever the configuration files hold
Constructed ==
    /\ now = BootTime
    /\ is_running = FALSE
    /\ break_mode = FALSE
    /\ last_break_time = None
    /\ tasks = <<>>
    /\ pc = "idle"
    /\ start_time = None
    /\ remaining = 0
    /\ dispatched = <<>>
    /\ raised = {}
    /\ invoked_at = <<>>
    /\ task_cursor = 0
    /\ current_time = None
    /\ in_function = {}
    /\ task_events = <<>>
    /\ due_at_begin = {}
    /\ safety_log = <<>>
    /\ suspicious_activities = <<>>
    /\ safety_events = <<>>
    /\ monitoring = FALSE
    /\ next_id = 0
    /\ monitor_threads = 0
    /\ report = NoReturn
    /\ ran_tasks = FALSE
    /\ obs_pc = "idle"
    /\ rep_pc = "idle"
    /\ report_draft = NoReturn
    /\ api_pc = "idle"
    /\ request = NoRequest
    /\ attempt = 0
    /\ response = None
    /\ attempts = <<>>
    /\ backoffs = <<>>
    /\ outcome = NoReturn
    /\ social_request = NoRequest
    /\ simulate_calls = 0
    /\ social_outcome = NoReturn
    /\ api_calls = 0
    /\ batch_actions = <<>>
    /\ batch_index = 0
    /\ results = <<>>
    /\ batch_outcome = NoReturn

Init ==
    /\ auto_schedule_file \in {NoFile} \cup ScheduleFiles
    /\ safety_rules_file \in {NoFile} \cup RulesFiles
    /\ Constructed

NoDispatch == dispatched' = <<>> /\ raised' = {}

\* time.sleep(seconds)
Sleep(seconds) == now' = now + seconds

\* the step ends within the given number of minutes after construction
WithinHorizon(minutes) == now' <= BootTime + minutes * SecondsPerMinute

----------------------------------------------------------------------------
(* Scheduler operations. *)

\* add_task(task_name, task_function, interval_minutes), called before
\* start() by the thread that then blocks in it
add_task(task_name, interval_minutes) ==
    /\ pc = "idle"
    /\ Len(tasks) < MaxTasks
    /\ tasks' = Append(tasks, [name |-> task_name, interval |-> interval_minutes,
                               last_run |-> None])
    /\ invoked_at' = Append(invoked_at, None)
    /\ NoDispatch
    /\ UNCHANGED <<now, auto_schedule_file, is_running, break_mode,
                   last_break_time, pc, start_time, remaining, monVars, apiVars,
                   runVars>>

\* SettingsManager.update_auto_schedule(new_schedule): the file's dict, or
\* an empty one if there is no file, updated key by key and written back with
\* the time of the update; a file that cannot be read is left as it is
update_auto_schedule(new_schedule) ==
    /\ IF auto_schedule_file = UnreadableFile
       THEN UNCHANGED auto_schedule_file
       ELSE LET current_schedule ==
                    IF auto_schedule_file = NoFile THEN <<>>
                    ELSE auto_schedule_file
            IN auto_schedule_file' =
                  DictUpdate(DictUpdate(current_schedule, new_schedule),
                             [last_updated |-> FormatTimestamp(now)])
    /\ NoDispatch
    /\ UNCHANGED <<now, is_running, break_mode, last_break_time, tasks,
                   invoked_at, pc, start_time, remaining, monVars, apiVars,
                   runVars>>

\* start(), up to the loop
start ==
    /\ pc \in {"idle", "done"}
    /\ is_running' = TRUE
    /\ start_time' = now
    /\ pc' = "loop"
    /\ ran_tasks' = FALSE
    /\ NoDispatch
    /\ UNCHANGED <<now, auto_schedule_file, break_mode, last_break_time,
                   tasks, invoked_at, remaining, monVars, apiVars,
                   runStepVars>>

\* defect: a stop() that also forgets the registered tasks
stop_ForgettingTasks ==
    /\ is_running' = FALSE
    /\ tasks' = <<>>
    /\ invoked_at' = <<>>
    /\ NoDispatch
    /\ UNCHANGED <<now, auto_schedule_file, break_mode, last_break_time,
                   pc, start_time, remaining, monVars, apiVars,
                   runVars>>

\* stop(), from another thread
stop ==
    /\ is_running' = FALSE
    /\ NoDispatch
    /\ UNCHANGED <<now, auto_schedule_file, break_mode, last_break_time,
                   tasks, invoked_at, pc, start_time, remaining, monVars, apiVars,
                   runVars>>

\* while self.is_running: false, start() returns
LoopExit ==
    /\ pc = "loop"
    /\ ~is_running
    /\ pc' = "done"
    /\ NoDispatch
    /\ UNCHANGED <<now, auto_schedule_file, is_running, break_mode,
                   last_break_time, tasks, invoked_at, start_time, remaining, monVars, apiVars,
                   runVars>>

\* Ctrl-C while the loop thread is in an iteration, in a sleep or in the
\* break countdown: no except Exception takes it, the except
\* KeyboardInterrupt of start() breaks out of the loop, is_running and
\* break_mode staying as they are
KeyboardInterrupt ==
    /\ pc \in {"loop", "break"}
    /\ pc' = "done"
    /\ NoDispatch
    /\ UNCHANGED <<now, auto_schedule_file, is_running, break_mode,
                   last_break_time, tasks, invoked_at, start_time, remaining,
                   monVars, apiVars, runVars>>

\* defect: a loop that gives up when outside the operational hours
TickOutsideHours_GivingUp ==
    /\ pc = "loop"
    /\ is_running
    /\ ~is_within_operational_hours
    /\ Sleep(300)
    /\ pc' = "done"
    /\ NoDispatch
    /\ UNCHANGED <<auto_schedule_file, is_running, break_mode, last_break_time,
                   tasks, invoked_at, start_time, remaining, monVars, apiVars,
                   runVars>>

\* an iteration outside the operational hours: sleep(300), continue
TickOutsideHours ==
    /\ pc = "loop"
    /\ is_running
    /\ ~is_within_operational_hours
    /\ Sleep(300)
    /\ NoDispatch
    /\ UNCHANGED <<auto_schedule_file, is_running, break_mode, last_break_time,
                   tasks, invoked_at, pc, start_time, remaining, monVars, apiVars,
                   runVars>>

\* an iteration in which should_take_break returns a schedule: take_break
\* sets break_mode and enters its countdown
TickBeginBreak ==
    /\ pc = "loop"
    /\ is_running
    /\ is_within_operational_hours
    /\ should_take_break(start_time) # 0
    /\ break_mode' = TRUE
    /\ remaining' = load_config.break_schedule[should_take_break(start_time)].break_minutes
    /\ pc' = "break"
    /\ ran_tasks' = FALSE
    /\ NoDispatch
    /\ UNCHANGED <<now, auto_schedule_file, is_running, last_break_time,
                   tasks, invoked_at, start_time, monVars, apiVars,
                   runStepVars>>

\* one round of take_break's countdown: sleep(60)
BreakCountdown ==
    /\ pc = "break"
    /\ remaining > 0
    /\ is_running
    /\ Sleep(60)
    /\ remaining' = remaining - 1
    /\ NoDispatch
    /\ UNCHANGED <<auto_schedule_file, is_running, break_mode, last_break_time,
                   tasks, invoked_at, pc, start_time, monVars, apiVars,
                   runVars>>

\* defect: the break ends without start_time and last_break_time set anew
BreakEnd_Unrecorded ==
    /\ pc = "break"
    /\ remaining = 0 \/ ~is_running
    /\ IF is_running
       THEN break_mode' = FALSE
       ELSE UNCHANGED break_mode
    /\ pc' = "loop"
    /\ NoDispatch
    /\ UNCHANGED <<now, auto_schedule_file, is_running, last_break_time,
                   start_time, tasks, invoked_at, remaining, monVars, apiVars,
                   runVars>>

\* the countdown is over or was left because the scheduler was stopped:
\* take_break ends the break only if still running; start() resets
\* start_time and continues
BreakEnd ==
    /\ pc = "break"
    /\ remaining = 0 \/ ~is_running
    /\ IF is_running
       THEN break_mode' = FALSE /\ last_break_time' = now
       ELSE UNCHANGED <<break_mode, last_break_time>>
    /\ start_time' = now
    /\ pc' = "loop"
    /\ NoDispatch
    /\ UNCHANGED <<now, auto_schedule_file, is_running, tasks, invoked_at, remaining, monVars, apiVars,
                   runVars>>

\* an iteration with no break to take: run_tasks(), sleep(60)
TickRunTasks ==
    /\ pc = "loop"
    /\ is_running
    /\ is_within_operational_hours
    /\ should_take_break(start_time) = 0
    /\ \E failing \in SUBSET SeqToSet(TasksToRun) :
          /\ dispatched' = InvokedTasks(TasksToRun, failing)
          /\ raised' = failing \cap SeqToSet(dispatched')
          /\ tasks' = TasksAfterRun(dispatched', raised')
          /\ invoked_at' = [i \in 1..Len(tasks) |->
                               IF i \in SeqToSet(dispatched') THEN now
                               ELSE invoked_at[i]]
    /\ ran_tasks' = TRUE
    /\ Sleep(60)
    /\ UNCHANGED <<auto_schedule_file, is_running, break_mode, last_break_time,
                   pc, start_time, remaining, monVars, apiVars,
                   runStepVars>>

\* how long a task function runs, in seconds
TaskDurations == {0, 30}

\* run_tasks() called by an iteration with no break to take, up to its for
\* loop; on break or outside the hours it returns without looping
RunTasksBegin ==
    /\ pc = "loop"
    /\ is_running
    /\ is_within_operational_hours
    /\ should_take_break(start_time) = 0
    /\ pc' = "tasks"
    /\ ran_tasks' = TRUE
    /\ current_time' = now
    /\ task_cursor' = IF break_mode \/ ~is_within_operational_hours
                      THEN Len(tasks) + 1 ELSE 1
    /\ task_events' = <<>>
    /\ due_at_begin' = {i \in 1..Len(tasks) : TaskDue(tasks[i], now)}
    /\ NoDispatch
    /\ UNCHANGED <<now, auto_schedule_file, is_running, break_mode,
                   last_break_time, tasks, invoked_at, start_time, remaining,
                   in_function, monVars, apiVars>>

\* the for loop at a task that is not due
TaskSkip ==
    /\ pc = "tasks"
    /\ task_cursor \in 1..Len(tasks)
    /\ task_cursor \notin in_function
    /\ ~TaskDue(tasks[task_cursor], current_time)
    /\ task_cursor' = task_cursor + 1
    /\ NoDispatch
    /\ UNCHANGED <<now, auto_schedule_file, is_running, break_mode,
                   last_break_time, tasks, invoked_at, pc, start_time,
                   remaining, current_time, in_function, task_events,
                   due_at_begin, monVars, ran_tasks, apiVars>>

\* defect: the function started in a thread of its own, the loop going on
TaskCall_InThread ==
    /\ pc = "tasks"
    /\ task_cursor \in 1..Len(tasks)
    /\ task_cursor \notin in_function
    /\ TaskDue(tasks[task_cursor], current_time)
    /\ in_function' = in_function \cup {task_cursor}
    /\ task_events' = Append(task_events, <<"call", task_cursor>>)
    /\ invoked_at' = [invoked_at EXCEPT ![task_cursor] = now]
    /\ dispatched' = <<task_cursor>>
    /\ raised' = {}
    /\ task_cursor' = task_cursor + 1
    /\ UNCHANGED <<now, auto_schedule_file, is_running, break_mode,
                   last_break_time, tasks, pc, start_time, remaining,
                   current_time, due_at_begin, monVars, ran_tasks, apiVars>>

\* the for loop at a task that is due: task['function']() is called, and
\* the loop waits in the call
TaskCall ==
    /\ pc = "tasks"
    /\ task_cursor \in 1..Len(tasks)
    /\ task_cursor \notin in_function
    /\ TaskDue(tasks[task_cursor], current_time)
    /\ in_function' = in_function \cup {task_cursor}
    /\ task_events' = Append(task_events, <<"call", task_cursor>>)
    /\ invoked_at' = [invoked_at EXCEPT ![task_cursor] = now]
    /\ dispatched' = <<task_cursor>>
    /\ raised' = {}
    /\ UNCHANGED <<now, auto_schedule_file, is_running, break_mode,
                   last_break_time, tasks, pc, start_time, remaining,
                   task_cursor, current_time, due_at_begin, monVars, ran_tasks, apiVars>>

\* the function of task i returns: last_run is assigned the current_time
\* of this run_tasks and the loop goes to the next task
TaskReturn(i, duration) ==
    /\ pc = "tasks"
    /\ i \in in_function
    /\ Sleep(duration)
    /\ in_function' = in_function \ {i}
    /\ task_events' = Append(task_events, <<"return", i>>)
    /\ tasks' = [tasks EXCEPT ![i].last_run = current_time]
    /\ task_cursor' = IF task_cursor = i THEN i + 1 ELSE task_cursor
    /\ NoDispatch
    /\ UNCHANGED <<auto_schedule_file, is_running, break_mode,
                   last_break_time, invoked_at, pc, start_time, remaining,
                   current_time, due_at_begin, monVars, ran_tasks, apiVars>>

\* the function of task i raises: the except inside the loop takes it,
\* last_run stays, and the loop goes to the next task
TaskRaise(i, duration) ==
    /\ pc = "tasks"
    /\ i \in in_function
    /\ Sleep(duration)
    /\ in_function' = in_function \ {i}
    /\ task_events' = Append(task_events, <<"raise", i>>)
    /\ task_cursor' = IF task_cursor = i THEN i + 1 ELSE task_cursor
    /\ dispatched' = <<>>
    /\ raised' = {i}
    /\ UNCHANGED <<auto_schedule_file, is_running, break_mode,
                   last_break_time, tasks, invoked_at, pc, start_time,
                   remaining, current_time, due_at_begin, monVars, ran_tasks, apiVars>>

\* the for loop is over: run_tasks returns and the iteration sleeps a minute
RunTasksEnd ==
    /\ pc = "tasks"
    /\ task_cursor > Len(tasks)
    /\ in_function = {}
    /\ Sleep(60)
    /\ pc' = "loop"
    /\ task_cursor' = 0
    /\ NoDispatch
    /\ UNCHANGED <<auto_schedule_file, is_running, break_mode,
                   last_break_time, tasks, invoked_at, start_time, remaining,
                   current_time, in_function, task_events, due_at_begin,
                   monVars, ran_tasks, apiVars>>

\* the steps of the scheduler
----------------------------------------------------------------------------
(* Safety monitor operations. *)

\* defect: a suspicious activity appended only when the count has just
\* passed the threshold
check_suspicious_activity_OnCrossing(log) ==
    LET rules == load_safety_rules
        threshold == rules.safety_measures.suspicious_activity_threshold
        count == Cardinality(RecentActivities(log, now))
    IN IF count = threshold + 1
       THEN /\ suspicious_activities' =
                  Append(suspicious_activities, SuspiciousActivity(count))
            /\ IF rules.safety_measures.auto_suspend_on_detection
               THEN safety_events' = Append(safety_events, SafetyEvent)
               ELSE UNCHANGED safety_events
       ELSE UNCHANGED <<suspicious_activities, safety_events>>

\* defect: the safety protocol triggered whatever auto-suspend says
check_suspicious_activity_AlwaysSuspends(log) ==
    LET rules == load_safety_rules
        threshold == rules.safety_measures.suspicious_activity_threshold
        count == Cardinality(RecentActivities(log, now))
    IN IF count > threshold
       THEN /\ suspicious_activities' =
                  Append(suspicious_activities, SuspiciousActivity(count))
            /\ safety_events' = Append(safety_events, SafetyEvent)
       ELSE UNCHANGED <<suspicious_activities, safety_events>>

\* rules['safety_measures']['suspicious_activity_threshold'] raises no KeyError
ThresholdReadable(rules) ==
    /\ "safety_measures" \in DOMAIN rules
    /\ "suspicious_activity_threshold" \in DOMAIN rules.safety_measures

\* rules['safety_measures']['auto_suspend_on_detection'] raises no KeyError
AutoSuspendReadable(rules) ==
    /\ "safety_measures" \in DOMAIN rules
    /\ "auto_suspend_on_detection" \in DOMAIN rules.safety_measures

\* check_suspicious_activity(activity) on the log as it stands after the
\* append: above the threshold it appends a suspicious activity and, if
\* auto-suspend is on, trigger_safety_protocol() saves a safety event. A
\* KeyError is caught and False returned: raised by the threshold it comes
\* before anything is counted, raised by auto-suspend it comes after the
\* suspicious activity was appended
check_suspicious_activity(log) ==
    LET rules == load_safety_rules
        count == Cardinality(RecentActivities(log, now))
    IN IF ~ThresholdReadable(rules)
       THEN UNCHANGED <<suspicious_activities, safety_events>>
       ELSE IF count > rules.safety_measures.suspicious_activity_threshold
       THEN /\ suspicious_activities' =
                  Append(suspicious_activities, SuspiciousActivity(count))
            /\ IF /\ AutoSuspendReadable(rules)
                  /\ rules.safety_measures.auto_suspend_on_detection
               THEN safety_events' = Append(safety_events, SafetyEvent)
               ELSE UNCHANGED safety_events
       ELSE UNCHANGED <<suspicious_activities, safety_events>>

\* log_activity(activity_type, platform, details)
log_activity(activity_type, platform, details) ==
    LET activity == [timestamp |-> FormatTimestamp(now),
                     type |-> activity_type,
                     platform |-> platform,
                     details |-> details]
    IN /\ safety_log' = KeepLast(Append(safety_log, activity))
       /\ check_suspicious_activity(KeepLast(Append(safety_log, activity)))
       /\ next_id' = next_id + 1
       /\ NoDispatch
       /\ UNCHANGED <<now, auto_schedule_file, is_running, break_mode,
                      last_break_time, tasks, invoked_at, pc, start_time, remaining,
                      safety_rules_file, monitoring, monLoopVars, stepVars, apiVars,
                      runVars>>

\* reset_monitoring()
reset_monitoring ==
    /\ safety_log' = <<>>
    /\ suspicious_activities' = <<>>
    /\ NoDispatch
    /\ UNCHANGED <<now, auto_schedule_file, is_running, break_mode,
                   last_break_time, tasks, invoked_at, pc, start_time, remaining,
                   safety_rules_file, safety_events, monitoring, next_id,
                   monLoopVars, stepVars, apiVars,
                   runVars>>

\* SettingsManager.update_safety_rules(new_rules): the file's dict, or an
\* empty one if there is no file, updated key by key and written back with
\* the time of the update; a file that cannot be read is left as it is
update_safety_rules(new_rules) ==
    /\ IF safety_rules_file = UnreadableFile
       THEN UNCHANGED safety_rules_file
       ELSE LET current_rules ==
                    IF safety_rules_file = NoFile THEN <<>>
                    ELSE safety_rules_file
            IN safety_rules_file' =
                  DictUpdate(DictUpdate(current_rules, new_rules),
                             [last_updated |-> FormatTimestamp(now)])
    /\ NoDispatch
    /\ UNCHANGED <<now, schedVars_but_dispatch, safety_log,
                   suspicious_activities, safety_events, monitoring, next_id,
                   monLoopVars, stepVars, apiVars>>

\* a call of get_safety_report() by the operator
Report ==
    /\ report' = get_safety_report
    /\ NoDispatch
    /\ UNCHANGED <<now, schedVars_but_dispatch, safety_rules_file, safety_log,
                   suspicious_activities, safety_events, monitoring, next_id,
                   monitor_threads, stepVars, apiVars>>

\* start_monitoring(): the flag set and one more daemon thread in monitor_loop
start_monitoring ==
    /\ monitoring' = TRUE
    /\ monitor_threads' = monitor_threads + 1
    /\ NoDispatch
    /\ UNCHANGED <<now, schedVars_but_dispatch, safety_rules_file, safety_log,
                   suspicious_activities, safety_events, next_id, report,
                   stepVars, apiVars>>

\* stop_monitoring()
stop_monitoring ==
    /\ monitoring' = FALSE
    /\ NoDispatch
    /\ UNCHANGED <<now, schedVars_but_dispatch, safety_rules_file, safety_log,
                   suspicious_activities, safety_events, next_id, monLoopVars,
                   stepVars, apiVars>>

\* defect: the periodic check starts over with empty lists
MonitorLoopIteration_Resetting ==
    /\ monitor_threads > 0
    /\ monitoring
    /\ report' = get_safety_report
    /\ safety_log' = <<>>
    /\ suspicious_activities' = <<>>
    /\ Sleep(SecondsPerMinute)
    /\ NoDispatch
    /\ UNCHANGED <<schedVars_but_dispatch, safety_rules_file, safety_events,
                   monitoring, next_id, monitor_threads, stepVars, apiVars>>

\* an iteration of monitor_loop: a report is made (and its status printed in
\* minutes 0 and 30), then the thread sleeps a minute
MonitorLoopIteration ==
    /\ monitor_threads > 0
    /\ monitoring
    /\ report' = get_safety_report
    /\ Sleep(SecondsPerMinute)
    /\ NoDispatch
    /\ UNCHANGED <<schedVars_but_dispatch, safety_rules_file, safety_log,
                   suspicious_activities, safety_events, monitoring, next_id,
                   monitor_threads, stepVars, apiVars>>

\* a thread of monitor_loop finds monitoring false and ends
MonitorLoopExit ==
    /\ monitor_threads > 0
    /\ ~monitoring
    /\ monitor_threads' = monitor_threads - 1
    /\ NoDispatch
    /\ UNCHANGED <<now, schedVars_but_dispatch, safety_rules_file, safety_log,
                   suspicious_activities, safety_events, monitoring, next_id,
                   report, stepVars, apiVars>>

\* log_activity taken one statement at a time, as another thread sees it:
\* the append to safety_log
LogActivityAppend(activity_type, platform, details) ==
    LET activity == [timestamp |-> FormatTimestamp(now),
                     type |-> activity_type,
                     platform |-> platform,
                     details |-> details]
    IN /\ obs_pc = "idle"
       /\ safety_log' = Append(safety_log, activity)
       /\ next_id' = next_id + 1
       /\ obs_pc' = "appended"
       /\ NoDispatch
       /\ UNCHANGED <<now, schedVars_but_dispatch, safety_rules_file,
                      suspicious_activities, safety_events, monitoring,
                      monLoopVars, rep_pc, report_draft, apiVars>>

\* the log cut to its last 1000 entries
LogActivityTrim ==
    /\ obs_pc = "appended"
    /\ safety_log' = KeepLast(safety_log)
    /\ obs_pc' = "trimmed"
    /\ NoDispatch
    /\ UNCHANGED <<now, schedVars_but_dispatch, safety_rules_file,
                   suspicious_activities, safety_events, monitoring, next_id,
                   monLoopVars, rep_pc, report_draft, apiVars>>

\* check_suspicious_activity(activity), and log_activity returns
LogActivityCheck ==
    /\ obs_pc = "trimmed"
    /\ check_suspicious_activity(safety_log)
    /\ obs_pc' = "idle"
    /\ NoDispatch
    /\ UNCHANGED <<now, schedVars_but_dispatch, safety_rules_file, safety_log,
                   monitoring, next_id, monLoopVars, rep_pc, report_draft,
                   apiVars>>

\* defect: the report takes the recent suspicious activities out of the list
ReportRead_Draining ==
    /\ monitor_threads > 0
    /\ monitoring
    /\ rep_pc = "idle"
    /\ report_draft' = [get_safety_report EXCEPT !.safety_status = "normal"]
    /\ suspicious_activities' =
          SubSeq(suspicious_activities, 1,
                 Len(suspicious_activities)
                   - Len(get_safety_report.recent_suspicious_activities))
    /\ rep_pc' = "built"
    /\ NoDispatch
    /\ UNCHANGED <<now, schedVars_but_dispatch, safety_rules_file, safety_log,
                   safety_events, monitoring, next_id, monLoopVars, obs_pc,
                   apiVars>>

\* get_safety_report in the thread of monitor_loop, one part at a time:
\* the report built from the lengths and the last five of the list
ReportRead ==
    /\ monitor_threads > 0
    /\ monitoring
    /\ rep_pc = "idle"
    /\ report_draft' = [get_safety_report EXCEPT !.safety_status = "normal"]
    /\ rep_pc' = "built"
    /\ NoDispatch
    /\ UNCHANGED <<now, schedVars_but_dispatch, safety_rules_file, safety_log,
                   suspicious_activities, safety_events, monitoring, next_id,
                   monLoopVars, obs_pc, apiVars>>

\* the status set from the lists as they are by then, and the report returned
ReportStatus ==
    /\ rep_pc = "built"
    /\ report' = [report_draft EXCEPT !.safety_status = safety_status]
    /\ rep_pc' = "sleep"
    /\ NoDispatch
    /\ UNCHANGED <<now, schedVars_but_dispatch, safety_rules_file, safety_log,
                   suspicious_activities, safety_events, monitoring, next_id,
                   monitor_threads, obs_pc, report_draft, apiVars>>

\* time.sleep(60) of monitor_loop, and the loop's test of the flag
MonitorSleep ==
    /\ rep_pc = "sleep"
    /\ Sleep(SecondsPerMinute)
    /\ rep_pc' = "idle"
    /\ NoDispatch
    /\ UNCHANGED <<schedVars_but_dispatch, safety_rules_file, safety_log,
                   suspicious_activities, safety_events, monitoring, next_id,
                   monLoopVars, obs_pc, report_draft, apiVars>>

\* wall-clock time passing while no modelled thread sleeps
TimePasses(seconds) ==
    /\ now' = now + seconds
    /\ NoDispatch
    /\ UNCHANGED <<schedVars_but_dispatch, monVars, apiVars>>

----------------------------------------------------------------------------
(* API client: make_request and execute_social_action. *)

\* the HTTP methods given to make_request
Methods == {"GET", "post", "PUT", "DELETE"}

\* method.upper()
Upper(method) ==
    CASE method = "get" -> "GET"
      [] method = "post" -> "POST"
      [] method = "put" -> "PUT"
      [] method = "delete" -> "DELETE"
      [] OTHER -> method

\* defect: a branch for DELETE as well
SupportedMethods_WithDelete == {"GET", "POST", "PUT", "DELETE"}

\* the methods make_request has a branch for
SupportedMethods == {"GET", "POST", "PUT"}

\* the status codes the remote end answers with
StatusCodes == {200, 404, 500}

\* the exceptions of requests.exceptions the transport call raises
TransportExceptions == {"Timeout", "ConnectionError", "RequestException"}

\* defect: the test attempt < retries, one attempt too many
MoreAttempts_OneMore(k, retries) == k < retries

\* if attempt < retries - 1: this was not the last iteration of
\* for attempt in range(retries)
MoreAttempts(k, retries) == k < retries - 1

\* defect: the attempts counted from one in the exponent
Backoff_FromOne(k) == 2 ^ (k + 1)

\* 2 ** attempt
Backoff(k) == 2 ^ k

\* defect: every exception reported as a timeout
ExceptionOutcome_AlwaysTimeout(exception) ==
    [success |-> FALSE, message |-> "Request timeout", args |-> <<>>]

\* what make_request returns from its except clauses
ExceptionOutcome(exception) ==
    CASE exception = "Timeout" ->
           [success |-> FALSE, message |-> "Request timeout", args |-> <<>>]
      [] exception = "ConnectionError" ->
           [success |-> FALSE, message |-> "Connection error", args |-> <<>>]
      [] OTHER ->
           [success |-> FALSE, message |-> "Request error: ",
            args |-> <<exception>>]

\* defect: no outer except, the exception leaves make_request
OuterExcept_Propagates(exception) == [raised |-> exception]

\* the outer except Exception of make_request: any exception that is not
\* handled inside the loop is returned as a failure
OuterExcept(exception) ==
    [success |-> FALSE, message |-> "Unexpected error: ", args |-> <<exception>>]

\* make_request(url, method, headers, data, retries), up to its loop; with no
\* iteration to make, the return after the loop reads a response that was
\* never assigned, which the outer except turns into a failure
make_request(method, retries) ==
    /\ api_pc = "idle"
    /\ request' = [method |-> method, retries |-> retries]
    /\ attempt' = 0
    /\ response' = None
    /\ attempts' = <<>>
    /\ backoffs' = <<>>
    /\ IF retries <= 0
       THEN /\ outcome' = OuterExcept("UnboundLocalError")
            /\ api_pc' = "idle"
       ELSE /\ outcome' = NoReturn
            /\ api_pc' = "attempt"
    /\ api_calls' = api_calls + 1
    /\ NoDispatch
    /\ UNCHANGED <<now, schedVars_but_dispatch, monVars, batchVars, social_request,
                   simulate_calls, social_outcome>>

\* an iteration with a method that has no branch: return at once
AttemptUnsupported ==
    /\ api_pc = "attempt"
    /\ Upper(request.method) \notin SupportedMethods
    /\ outcome' = [success |-> FALSE, message |-> "Unsupported HTTP method: ",
                   args |-> <<request.method>>]
    /\ api_pc' = "idle"
    /\ NoDispatch
    /\ UNCHANGED <<now, schedVars_but_dispatch, monVars, batchVars, request, attempt,
                   response, attempts, backoffs, social_request,
                   simulate_calls, social_outcome, api_calls>>

\* defect: a response that is not 2xx returned as a failure at once
AttemptGetsResponse_NoRetry(status_code) ==
    /\ api_pc = "attempt"
    /\ Upper(request.method) \in SupportedMethods
    /\ attempts' = Append(attempts, [result |-> "response",
                                     status_code |-> status_code])
    /\ response' = status_code
    /\ outcome' = IF 200 <= status_code /\ status_code < 300
                  THEN [success |-> TRUE, message |-> "response.json()",
                        args |-> <<>>]
                  ELSE [success |-> FALSE,
                        message |-> "Request failed after attempts. Status: ",
                        args |-> <<request.retries, status_code>>]
    /\ api_pc' = "idle"
    /\ NoDispatch
    /\ UNCHANGED <<now, schedVars_but_dispatch, monVars, batchVars, request, attempt,
                   backoffs, social_request, simulate_calls, social_outcome,
                   api_calls>>

\* defect: a 2xx response returned only from the last iteration
AttemptGetsResponse_SuccessNotReturned(status_code) ==
    /\ api_pc = "attempt"
    /\ Upper(request.method) \in SupportedMethods
    /\ attempts' = Append(attempts, [result |-> "response",
                                     status_code |-> status_code])
    /\ response' = status_code
    /\ IF MoreAttempts(attempt, request.retries)
       THEN /\ backoffs' = Append(backoffs, Backoff(attempt))
            /\ Sleep(Backoff(attempt))
            /\ attempt' = attempt + 1
            /\ UNCHANGED <<outcome, api_pc>>
       ELSE /\ outcome' =
                 IF 200 <= status_code /\ status_code < 300
                 THEN [success |-> TRUE, message |-> "response.json()",
                       args |-> <<>>]
                 ELSE [success |-> FALSE,
                       message |-> "Request failed after attempts. Status: ",
                       args |-> <<request.retries, status_code>>]
            /\ api_pc' = "idle"
            /\ UNCHANGED <<now, attempt, backoffs>>
    /\ NoDispatch
    /\ UNCHANGED <<schedVars_but_dispatch, monVars, batchVars, request,
                   social_request, simulate_calls, social_outcome, api_calls>>

\* an iteration whose transport call returns a response: 2xx is returned as
\* success; otherwise sleep 2 ** attempt and go on if an iteration is left,
\* else leave the loop and return the failure that names the last status
AttemptGetsResponse(status_code) ==
    /\ api_pc = "attempt"
    /\ Upper(request.method) \in SupportedMethods
    /\ attempts' = Append(attempts, [result |-> "response",
                                     status_code |-> status_code])
    /\ response' = status_code
    /\ IF 200 <= status_code /\ status_code < 300
       THEN /\ outcome' = [success |-> TRUE, message |-> "response.json()",
                           args |-> <<>>]
            /\ api_pc' = "idle"
            /\ UNCHANGED <<now, attempt, backoffs>>
       ELSE IF MoreAttempts(attempt, request.retries)
            THEN /\ backoffs' = Append(backoffs, Backoff(attempt))
                 /\ Sleep(Backoff(attempt))
                 /\ attempt' = attempt + 1
                 /\ UNCHANGED <<outcome, api_pc>>
            ELSE /\ outcome' =
                      [success |-> FALSE,
                       message |-> "Request failed after attempts. Status: ",
                       args |-> <<request.retries, status_code>>]
                 /\ api_pc' = "idle"
                 /\ UNCHANGED <<now, attempt, backoffs>>
    /\ NoDispatch
    /\ UNCHANGED <<schedVars_but_dispatch, monVars, batchVars, request, social_request,
                   simulate_calls, social_outcome, api_calls>>

\* an iteration whose transport call raises: sleep 2 ** attempt and continue
\* if an iteration is left, else return the failure of this exception
AttemptRaises(exception) ==
    /\ api_pc = "attempt"
    /\ Upper(request.method) \in SupportedMethods
    /\ attempts' = Append(attempts, [result |-> exception,
                                     status_code |-> None])
    /\ IF MoreAttempts(attempt, request.retries)
       THEN /\ backoffs' = Append(backoffs, Backoff(attempt))
            /\ Sleep(Backoff(attempt))
            /\ attempt' = attempt + 1
            /\ UNCHANGED <<outcome, api_pc>>
       ELSE /\ outcome' = ExceptionOutcome(exception)
            /\ api_pc' = "idle"
            /\ UNCHANGED <<now, attempt, backoffs>>
    /\ NoDispatch
    /\ UNCHANGED <<schedVars_but_dispatch, monVars, batchVars, request, response,
                   social_request, simulate_calls, social_outcome, api_calls>>

\* an iteration whose transport call raises an exception that is not one of
\* requests.exceptions: no except clause of the loop takes it, the outer one
\* returns it as a failure at once
AttemptRaisesUnexpected(exception) ==
    /\ api_pc = "attempt"
    /\ Upper(request.method) \in SupportedMethods
    /\ attempts' = Append(attempts, [result |-> exception,
                                     status_code |-> None])
    /\ outcome' = OuterExcept(exception)
    /\ api_pc' = "idle"
    /\ NoDispatch
    /\ UNCHANGED <<now, schedVars_but_dispatch, monVars, batchVars, request, attempt,
                   response, backoffs, social_request, simulate_calls,
                   social_outcome, api_calls>>

\* the platforms given to execute_social_action
Platforms == {"facebook", "instagram", "twitter", "tiktok"}

\* the platforms execute_social_action has a branch for
SupportedPlatforms == {"facebook", "instagram", "twitter"}

\* time.sleep(random.uniform(1, n)) of simulate_<platform>_action, in whole
\* seconds; no sleep for a platform without a branch
SimulatedDelays(platform) ==
    CASE platform = "facebook" -> 1..3
      [] platform = "instagram" -> 1..4
      [] platform = "twitter" -> 1..2
      [] OTHER -> {0}

\* execute_social_action(platform, action_type, target_url, access_token),
\* the simulated call succeeding or not and taking delay seconds
SocialAction(platform, action_type, simulated_success, delay) ==
    /\ social_request' = [platform |-> platform, action_type |-> action_type]
    /\ IF platform \in SupportedPlatforms
       THEN /\ simulate_calls' = 1
            /\ Sleep(delay)
            /\ social_outcome' =
                  IF simulated_success
                  THEN [success |-> TRUE, message |-> "success",
                        args |-> <<action_type>>, response_time |-> delay]
                  ELSE [success |-> FALSE, message |-> "Simulated API error",
                        args |-> <<"API_ERROR">>, response_time |-> delay]
       ELSE /\ simulate_calls' = 0
            /\ UNCHANGED now
            /\ social_outcome' =
                  [success |-> FALSE, message |-> "Unsupported platform: ",
                   args |-> <<platform>>]

\* a call of execute_social_action on the client
execute_social_action(platform, action_type, simulated_success, delay) ==
    /\ api_pc = "idle"
    /\ SocialAction(platform, action_type, simulated_success, delay)
    /\ api_calls' = api_calls + 1
    /\ NoDispatch
    /\ UNCHANGED <<schedVars_but_dispatch, monVars, batchVars, api_pc, request, attempt,
                   response, attempts, backoffs, outcome>>

\* an element of the list given to batch_execute_actions that is no dict
NotADict == [malformed |-> TRUE]

\* the dicts given to batch_execute_actions
BatchRequests ==
    {[platform |-> "facebook", action_type |-> "like"],
     [platform |-> "instagram", action_type |-> "comment"],
     [platform |-> "tiktok", action_type |-> "like"]}

\* the lists given to batch_execute_actions
BatchInputs ==
    UNION {[1..n -> BatchRequests \cup {NotADict}] : n \in 0..MaxBatch}

\* time.sleep(random.uniform(1, 2)) between the actions of a batch, in whole
\* seconds
BatchPauses == 1..2

\* defect: the latest result put in front of the others
RecordResult_Prepend(list, entry) == <<entry>> \o list

\* results.append(...)
RecordResult(list, entry) == Append(list, entry)

\* batch_execute_actions(actions), up to its loop; with no action in the list
\* it returns the empty results at once
batch_execute_actions(actions) ==
    /\ api_pc = "idle"
    /\ batch_actions' = actions
    /\ batch_index' = 0
    /\ results' = <<>>
    /\ IF actions = <<>>
       THEN /\ batch_outcome' = [success |-> TRUE, results |-> <<>>]
            /\ api_pc' = "idle"
       ELSE /\ batch_outcome' = NoReturn
            /\ api_pc' = "batch"
    /\ api_calls' = api_calls + 1
    /\ NoDispatch
    /\ UNCHANGED <<now, schedVars_but_dispatch, monVars, request, attempt,
                   response, attempts, backoffs, outcome, social_request,
                   simulate_calls, social_outcome>>

\* defect: the batch given up at the first action that fails
BatchExecute_AbortOnFailure(simulated_success, delay) ==
    /\ api_pc = "batch"
    /\ batch_actions[batch_index + 1] # NotADict
    /\ batch_index' = batch_index + 1
    /\ LET action == batch_actions[batch_index + 1] IN
         /\ SocialAction(action.platform, action.action_type,
                         simulated_success, delay)
         /\ IF social_outcome'.success
            THEN /\ results' =
                      RecordResult(results,
                                   [platform |-> action.platform,
                                    action_type |-> action.action_type,
                                    success |-> social_outcome'.success,
                                    result |-> social_outcome',
                                    timestamp |-> now'])
                 /\ api_pc' = "batch_pause"
                 /\ UNCHANGED batch_outcome
            ELSE /\ batch_outcome' = [success |-> FALSE,
                                      message |-> "Batch execution error: ",
                                      args |-> <<action.platform>>]
                 /\ api_pc' = "idle"
                 /\ UNCHANGED results
    /\ NoDispatch
    /\ UNCHANGED <<schedVars_but_dispatch, monVars, request, attempt,
                   response, attempts, backoffs, outcome, api_calls,
                   batch_actions>>

\* an iteration of batch_execute_actions, up to its sleep: the action is
\* given to execute_social_action and what that returns is recorded,
\* successful or not
BatchExecute(simulated_success, delay) ==
    /\ api_pc = "batch"
    /\ batch_actions[batch_index + 1] # NotADict
    /\ batch_index' = batch_index + 1
    /\ LET action == batch_actions[batch_index + 1] IN
         /\ SocialAction(action.platform, action.action_type,
                         simulated_success, delay)
         /\ results' = RecordResult(results,
                                    [platform |-> action.platform,
                                     action_type |-> action.action_type,
                                     success |-> social_outcome'.success,
                                     result |-> social_outcome',
                                     timestamp |-> now'])
    /\ api_pc' = "batch_pause"
    /\ NoDispatch
    /\ UNCHANGED <<schedVars_but_dispatch, monVars, request, attempt,
                   response, attempts, backoffs, outcome, api_calls,
                   batch_actions, batch_outcome>>

\* an iteration on an element that has no get: the AttributeError is taken by
\* the except of batch_execute_actions and the results so far are dropped
BatchExecuteMalformed ==
    /\ api_pc = "batch"
    /\ batch_actions[batch_index + 1] = NotADict
    /\ batch_index' = batch_index + 1
    /\ batch_outcome' = [success |-> FALSE,
                         message |-> "Batch execution error: ",
                         args |-> <<"AttributeError">>]
    /\ api_pc' = "idle"
    /\ NoDispatch
    /\ UNCHANGED <<now, schedVars_but_dispatch, monVars, request, attempt,
                   response, attempts, backoffs, outcome, social_request,
                   simulate_calls, social_outcome, api_calls, batch_actions,
                   results>>

\* defect: the loop going to the next action without sleeping
BatchPause_NoSleep(pause) ==
    /\ api_pc = "batch_pause"
    /\ UNCHANGED now
    /\ IF batch_index < Len(batch_actions)
       THEN /\ api_pc' = "batch"
            /\ UNCHANGED batch_outcome
       ELSE /\ api_pc' = "idle"
            /\ batch_outcome' = [success |-> TRUE, results |-> results]
    /\ NoDispatch
    /\ UNCHANGED <<schedVars_but_dispatch, monVars, request, attempt,
                   response, attempts, backoffs, outcome, social_request,
                   simulate_calls, social_outcome, api_calls, batch_actions,
                   batch_index, results>>

\* the sleep that ends an iteration of batch_execute_actions, the last one
\* too; after the last the results are returned
BatchPause(pause) ==
    /\ api_pc = "batch_pause"
    /\ Sleep(pause)
    /\ IF batch_index < Len(batch_actions)
       THEN /\ api_pc' = "batch"
            /\ UNCHANGED batch_outcome
       ELSE /\ api_pc' = "idle"
            /\ batch_outcome' = [success |-> TRUE, results |-> results]
    /\ NoDispatch
    /\ UNCHANGED <<schedVars_but_dispatch, monVars, request, attempt,
                   response, attempts, backoffs, outcome, social_request,
                   simulate_calls, social_outcome, api_calls, batch_actions,
                   batch_index, results>>

----------------------------------------------------------------------------
(* Specifications. *)

\* the scheduler alone
NextSched ==
    \/ \E r \in Registrations : add_task(r[1], r[2])
    \/ start
    \/ stop
    \/ LoopExit
    \/ TickOutsideHours /\ WithinHorizon(MaxMinutes)
    \/ TickBeginBreak
    \/ BreakCountdown /\ WithinHorizon(MaxMinutes)
    \/ BreakEnd
    \/ TickRunTasks /\ WithinHorizon(MaxMinutes)


InitSched == Init /\ safety_rules_file = NoFile

SpecSched == InitSched /\ [][NextSched]_vars

\* registrations of every kind, and the scheduler started and stopped
NextRegistry ==
    \/ \E r \in RegistryInputs : add_task(r[1], r[2])
    \/ start
    \/ stop
    \/ LoopExit

SpecRegistry == InitSched /\ [][NextRegistry]_vars

\* the scheduler with one task, start() called at some second of the first
\* minutes after construction
NextWindow ==
    \/ tasks = <<>> /\ add_task("sync", 1)
    \/ start
    \/ stop
    \/ LoopExit
    \/ TickOutsideHours /\ WithinHorizon(MaxMinutes)
    \/ TickBeginBreak
    \/ BreakCountdown /\ WithinHorizon(MaxMinutes)
    \/ BreakEnd
    \/ TickRunTasks /\ WithinHorizon(MaxMinutes)
    \/ \E d \in {SecondsPerMinute - 1, SecondsPerMinute} :
          /\ pc = "idle"
          /\ now + d <= BootTime + MaxBootDelay * SecondsPerMinute
          /\ TimePasses(d)

SpecWindow == InitSched /\ [][NextWindow]_vars

\* the scheduler with one task under the break rule of the defaults, long
\* enough for a break to be due, taken and over
NextLongRun ==
    \/ tasks = <<>> /\ add_task("sync", 3)
    \/ start
    \/ stop
    \/ LoopExit
    \/ TickOutsideHours /\ WithinHorizon(LongMinutes)
    \/ TickBeginBreak
    \/ BreakCountdown /\ WithinHorizon(LongMinutes)
    \/ BreakEnd
    \/ TickRunTasks /\ WithinHorizon(LongMinutes)

InitLongRun == InitSched /\ auto_schedule_file \in {NoFile, LateWindowSchedule}

SpecLongRun == InitLongRun /\ [][NextLongRun]_vars

\* the scheduler with one task, started once in the first minutes after
\* construction: a whole day under the window that passes midnight, a few
\* minutes under the window 06:00-06:03
OvernightHorizon ==
    WithinHorizon(IF auto_schedule_file = OvernightSchedule
                  THEN OvernightMinutes ELSE MaxMinutes)

NextOvernight ==
    \/ tasks = <<>> /\ add_task("sync", 1)
    \/ pc = "idle" /\ start
    \/ stop
    \/ LoopExit
    \/ TickOutsideHours /\ OvernightHorizon
    \/ TickBeginBreak
    \/ BreakCountdown /\ OvernightHorizon
    \/ BreakEnd
    \/ TickRunTasks /\ OvernightHorizon
    \/ /\ pc = "idle"
       /\ now + SecondsPerMinute <= BootTime + MaxStartDelay * SecondsPerMinute
       /\ TimePasses(SecondsPerMinute)

InitOvernight ==
    /\ Constructed
    /\ safety_rules_file = NoFile
    /\ \/ auto_schedule_file = OvernightSchedule
       \/ /\ auto_schedule_file \in ScheduleFiles
          /\ auto_schedule_file.operational_hours.end_time = <<6, 3>>

SpecOvernight == InitOvernight /\ [][NextOvernight]_vars

\* the scheduler started once and never stopped, its window disabled, each
\* task registered once; the thread in start() goes on with its loop
NextNoStarve ==
    \/ \E r \in Registrations :
          /\ \A i \in 1..Len(tasks) : tasks[i].name # r[1]
          /\ add_task(r[1], r[2])
    \/ pc = "idle" /\ start
    \/ TickBeginBreak
    \/ BreakCountdown /\ WithinHorizon(StarveMinutes)
    \/ BreakEnd
    \/ TickRunTasks /\ WithinHorizon(StarveMinutes)

InitNoStarve ==
    /\ Constructed
    /\ safety_rules_file = NoFile
    /\ auto_schedule_file \in BreakFiles

SpecNoStarve ==
    /\ InitNoStarve
    /\ [][NextNoStarve]_vars
    /\ WF_vars(TickBeginBreak)
    /\ WF_vars(BreakCountdown /\ WithinHorizon(StarveMinutes))
    /\ WF_vars(BreakEnd)
    /\ WF_vars(TickRunTasks /\ WithinHorizon(StarveMinutes))

\* both configuration files missing or not readable: activities observed,
\* then the scheduler started with one task
NextDefaults ==
    \/ tasks = <<>> /\ add_task("sync", 1)
    \/ start
    \/ stop
    \/ LoopExit
    \/ TickOutsideHours /\ WithinHorizon(MaxMinutes)
    \/ TickRunTasks /\ WithinHorizon(MaxMinutes)
    \/ /\ pc = "idle"
       /\ next_id < MaxObs
       /\ log_activity("like", "facebook", next_id + 1)

InitDefaults ==
    /\ auto_schedule_file \in {NoFile, UnreadableFile}
    /\ safety_rules_file \in {NoFile, UnreadableFile}
    /\ Constructed

SpecDefaults == InitDefaults /\ [][NextDefaults]_vars

\* the scheduler with one task, and the settings manager rewriting the
\* schedule file once, before or while the scheduler runs
NextMalformed ==
    \/ tasks = <<>> /\ add_task("sync", 1)
    \/ \E new_schedule \in NewSchedules :
          /\ "last_updated" \notin DOMAIN auto_schedule_file
          /\ update_auto_schedule(new_schedule)
    \/ start
    \/ stop
    \/ LoopExit
    \/ TickOutsideHours /\ WithinHorizon(MaxMinutes)
    \/ TickBeginBreak
    \/ BreakCountdown /\ WithinHorizon(MaxMinutes)
    \/ BreakEnd
    \/ TickRunTasks /\ WithinHorizon(MaxMinutes)

InitMalformed ==
    /\ InitSched
    /\ \/ auto_schedule_file = NoFile
       \/ /\ auto_schedule_file # NoFile
          /\ auto_schedule_file.operational_hours.end_time = <<6, 3>>

SpecMalformed == InitMalformed /\ [][NextMalformed]_vars

\* the scheduler started once, with run_tasks taken one call and one return
\* at a time, under the file whose window is disabled
NextTasks ==
    \/ \E r \in Registrations : add_task(r[1], r[2])
    \/ pc = "idle" /\ start
    \/ stop
    \/ LoopExit
    \/ TickBeginBreak
    \/ BreakCountdown /\ WithinHorizon(TaskMinutes)
    \/ BreakEnd
    \/ RunTasksBegin
    \/ TaskSkip
    \/ TaskCall
    \/ \E i \in in_function, duration \in TaskDurations :
          TaskReturn(i, duration) /\ WithinHorizon(TaskMinutes)
    \/ \E i \in in_function, duration \in TaskDurations :
          TaskRaise(i, duration) /\ WithinHorizon(TaskMinutes)
    \/ RunTasksEnd /\ WithinHorizon(TaskMinutes)

InitTasks ==
    /\ InitSched
    /\ auto_schedule_file # NoFile
    /\ ~auto_schedule_file.operational_hours.enabled

SpecTasks == InitTasks /\ [][NextTasks]_vars

\* the scheduler with one task, stopped by stop() or by Ctrl-C
NextLoop ==
    \/ tasks = <<>> /\ add_task("sync", 1)
    \/ start
    \/ stop
    \/ KeyboardInterrupt
    \/ LoopExit
    \/ TickOutsideHours /\ WithinHorizon(MaxMinutes)
    \/ TickBeginBreak
    \/ BreakCountdown /\ WithinHorizon(MaxMinutes)
    \/ BreakEnd
    \/ TickRunTasks /\ WithinHorizon(MaxMinutes)

InitLoop == InitSched /\ auto_schedule_file # LateWindowSchedule

\* the loop thread is not held up for ever: when it can test is_running and
\* leave the loop or the countdown, it does
SpecLoopFair ==
    /\ InitLoop
    /\ [][NextLoop]_vars
    /\ WF_vars(LoopExit)
    /\ WF_vars(BreakEnd)

\* the activity type, platform and details given to log_activity: the
\* details number the calls, as the targets post_0, post_1, ... of
\* test_safety_monitor do
Observe == log_activity("like", "facebook", next_id + 1)

\* the scheduler, with activities observed by the monitor before it starts
Next ==
    \/ \E r \in Registrations : add_task(r[1], r[2])
    \/ start
    \/ stop
    \/ LoopExit
    \/ TickOutsideHours /\ WithinHorizon(MaxMinutes)
    \/ TickBeginBreak
    \/ BreakCountdown /\ WithinHorizon(MaxMinutes)
    \/ BreakEnd
    \/ TickRunTasks /\ WithinHorizon(MaxMinutes)
    \/ pc = "idle" /\ next_id < MaxObs /\ Observe

Spec == Init /\ [][Next]_vars

\* the monitor alone, with time passing between observations
NextMon ==
    \/ next_id < MaxObs /\ Observe
    \/ reset_monitoring
    \/ \E d \in {SecondsPerHour - 1, SecondsPerHour} :
          /\ now + d <= BootTime + MaxHours * SecondsPerHour
          /\ TimePasses(d)

InitMon == Init /\ auto_schedule_file = NoFile

SpecMon == InitMon /\ [][NextMon]_vars

\* the monitor alone, observing a burst long enough to fill the log
NextRing == next_id < RingObs /\ Observe

SpecRing == InitMon /\ [][NextRing]_vars

\* the monitor alone, observing bursts an hour apart that pass the report's
\* high-activity mark
NextBurst ==
    \/ next_id < BurstObs /\ Observe
    \/ /\ now + SecondsPerHour <= BootTime + BurstHours * SecondsPerHour
       /\ TimePasses(SecondsPerHour)

SpecBurst == InitMon /\ [][NextBurst]_vars

\* the monitor with its background thread started and stopped, reports
\* asked for, and minutes passing between observations
NextMonLoop ==
    \/ next_id < LoopObs /\ Observe
    \/ reset_monitoring
    \/ Report
    \/ monitor_threads < MaxThreads /\ start_monitoring
    \/ stop_monitoring
    \/ MonitorLoopIteration /\ WithinHorizon(LoopMinutes)
    \/ MonitorLoopExit
    \/ TimePasses(SecondsPerMinute) /\ WithinHorizon(LoopMinutes)

InitMonLoop ==
    /\ InitMon
    /\ safety_rules_file # NoFile
    /\ safety_rules_file.safety_measures.suspicious_activity_threshold <= 3

SpecMonLoop == InitMonLoop /\ [][NextMonLoop]_vars

\* the monitor under the rules with threshold 2: observations enough for
\* more than five detections, with reports and resets between them
NextReport ==
    \/ next_id < MaxObs /\ Observe
    \/ Report
    \/ reset_monitoring

InitReport ==
    /\ InitMon
    /\ safety_rules_file # NoFile
    /\ safety_rules_file.safety_measures.suspicious_activity_threshold = 2

SpecReport == InitReport /\ [][NextReport]_vars

\* the monitor observing a burst, and the settings manager rewriting the
\* rules file once, before or during the burst
NextDegrade ==
    \/ next_id < DegradeObs /\ Observe
    \/ \E new_rules \in NewRules :
          /\ "last_updated" \notin DOMAIN safety_rules_file
          /\ update_safety_rules(new_rules)

InitDegrade ==
    /\ InitMon
    /\ \/ safety_rules_file = NoFile
       \/ /\ safety_rules_file # NoFile
          /\ safety_rules_file.safety_measures.suspicious_activity_threshold <= 3

SpecDegrade == InitDegrade /\ [][NextDegrade]_vars

\* the monitor with one thread of monitor_loop, both log_activity and the
\* loop's report taken one statement at a time
NextInterleave ==
    \/ next_id < StepObs /\ LogActivityAppend("like", "facebook", next_id + 1)
    \/ LogActivityTrim
    \/ LogActivityCheck
    \/ obs_pc = "idle" /\ reset_monitoring
    \/ obs_pc = "idle" /\ Report
    \/ monitor_threads = 0 /\ start_monitoring
    \/ stop_monitoring
    \/ ReportRead
    \/ ReportStatus
    \/ MonitorSleep /\ WithinHorizon(StepMinutes)
    \/ rep_pc = "idle" /\ MonitorLoopExit

InitInterleave ==
    /\ InitMon
    /\ safety_rules_file # NoFile
    /\ safety_rules_file.safety_measures.suspicious_activity_threshold = 2

SpecInterleave == InitInterleave /\ [][NextInterleave]_vars

\* the API client alone: calls of make_request with every result of each
\* attempt, and calls of execute_social_action
NextApi ==
    \/ \E method \in Methods, retries \in 1..MaxRetries :
          api_calls < MaxCalls /\ make_request(method, retries)
    \/ AttemptUnsupported
    \/ \E status_code \in StatusCodes : AttemptGetsResponse(status_code)
    \/ \E exception \in TransportExceptions : AttemptRaises(exception)
    \/ \E platform \in Platforms, simulated_success \in BOOLEAN :
          \E delay \in SimulatedDelays(platform) :
             /\ api_calls < MaxCalls
             /\ execute_social_action(platform, "like", simulated_success, delay)

InitApi == Init /\ auto_schedule_file = NoFile /\ safety_rules_file = NoFile

SpecApi == InitApi /\ [][NextApi]_vars

\* the first call on a new API client, make_request also with no retries
\* at all and with a transport call that raises something unforeseen
NextGateway ==
    \/ \E method \in Methods, retries \in 0..MaxRetries :
          api_calls = 0 /\ make_request(method, retries)
    \/ AttemptUnsupported
    \/ \E status_code \in StatusCodes : AttemptGetsResponse(status_code)
    \/ \E exception \in TransportExceptions : AttemptRaises(exception)
    \/ AttemptRaisesUnexpected("ValueError")
    \/ \E platform \in Platforms, simulated_success \in BOOLEAN :
          \E delay \in SimulatedDelays(platform) :
             /\ api_calls = 0
             /\ execute_social_action(platform, "like", simulated_success, delay)

SpecGateway == InitApi /\ [][NextGateway]_vars

\* one batch given to a new API client
NextBatch ==
    \/ \E actions \in BatchInputs :
          api_calls = 0 /\ batch_execute_actions(actions)
    \/ /\ api_pc = "batch"
       /\ batch_actions[batch_index + 1] # NotADict
       /\ \E simulated_success \in BOOLEAN :
             \E delay \in
                  SimulatedDelays(batch_actions[batch_index + 1].platform) :
                BatchExecute(simulated_success, delay)
    \/ BatchExecuteMalformed
    \/ \E pause \in BatchPauses : BatchPause(pause)

SpecBatch == InitApi /\ [][NextBatch]_vars

----------------------------------------------------------------------------
(* Properties. *)

\* the entries of log stamped less than one hour before t
TrailingHourCount(log, t) ==
    Cardinality({i \in 1..Len(log) :
                   t - ParseTimestamp(log[i].timestamp) < 3600})

\* the suspicious-activity threshold in force
Threshold == load_safety_rules.safety_measures.suspicious_activity_threshold

\* C1: from a state in which break_mode is true, no step invokes a task
\* function and no step begins a break.
C1_BreakModeBlocksWork ==
    [][break_mode => /\ dispatched' = <<>>
                     /\ ~(pc # "break" /\ pc' = "break")
                     /\ remaining' <= remaining]_vars

\* C1 case: the loop has gone through an iteration with break_mode set (a
\* stop during a break, then a restart) and a task that is due.
C1_Witness ==
    /\ break_mode /\ pc = "loop" /\ is_running
    /\ now > start_time
    /\ ~load_config.operational_hours.enabled
    /\ \E i \in 1..Len(tasks) : tasks[i].last_run = None

\* the safety protocol saved a suspension that has not yet run its duration
SuspensionSignalled ==
    \E k \in 1..Len(safety_events) :
        now - ParseTimestamp(safety_events[k].timestamp)
            < safety_events[k].duration_minutes * 60

\* C2: once the monitor has signalled suspension, the next iteration of the
\* running scheduler enters a break of 30 minutes and invokes no task.
C2_SuspensionForcesBreak ==
    [][(/\ SuspensionSignalled
        /\ pc = "loop" /\ is_running /\ ~break_mode
        /\ is_within_operational_hours
        /\ (now' # now \/ pc' # pc))
       => (break_mode' /\ remaining' = 30 /\ dispatched' = <<>>)]_vars

\* C3 as claimed: a suspicious activity is appended only by the observation
\* at which the trailing-hour count crosses the threshold, that is, when the
\* count before it was not above the threshold.
C3_OneEventPerCrossing ==
    [][Len(suspicious_activities') > Len(suspicious_activities)
       => TrailingHourCount(safety_log, now) <= Threshold]_vars

\* C3 as amended: every observation whose trailing-hour count (the new entry
\* included) is above the threshold appends exactly one suspicious activity,
\* and every other observation appends none.
C3_OneEventPerObservationAbove ==
    [][next_id' = next_id + 1
       => Len(suspicious_activities') =
             Len(suspicious_activities)
             + (IF TrailingHourCount(safety_log', now') > Threshold
                THEN 1 ELSE 0)]_vars

\* C3 case: a suspicious activity appended while the count was already above
\* the threshold.
C3_Witness ==
    \E k \in 1..Len(suspicious_activities) :
        suspicious_activities[k].activities_count >= Threshold + 2

\* C4 as claimed: the report's status is attention_required whenever a
\* suspicious activity exists, else high_activity above 50, else normal.
C4_AttentionTakesPrecedence ==
    get_safety_report.safety_status =
        IF Len(suspicious_activities) > 0 THEN "attention_required"
        ELSE IF TrailingHourCount(safety_log, now) > 50 THEN "high_activity"
        ELSE "normal"

\* C4 as amended: the report's status is high_activity whenever the
\* trailing-hour count is above 50 (also when suspicious activities exist),
\* else attention_required if a suspicious activity exists, else normal.
C4_HighActivityTakesPrecedence ==
    get_safety_report.safety_status =
        IF TrailingHourCount(safety_log, now) > 50 THEN "high_activity"
        ELSE IF Len(suspicious_activities) > 0 THEN "attention_required"
        ELSE "normal"

\* C4 case: suspicious activities exist and the trailing-hour count is above 50.
C4_Witness ==
    /\ Len(suspicious_activities) > 0
    /\ TrailingHourCount(safety_log, now) > 50
    /\ get_safety_report.safety_status = "high_activity"

\* C5: the log never holds more than 1000 entries; it holds the latest
\* min(N, 1000) of the N observations, in the order of their insertion, so
\* that from N = 1000 on its size is 1000 and its oldest entry is the
\* (N-999)-th observation.
C5_LogBoundedFifo ==
    /\ Len(safety_log) <= 1000
    /\ Len(safety_log) = (IF next_id >= 1000 THEN 1000 ELSE next_id)
    /\ \A k \in 1..Len(safety_log) :
          safety_log[k].details = next_id - Len(safety_log) + k

\* C5 case: more than 1000 observations were made and the oldest were evicted.
C5_Witness ==
    /\ next_id > 1000
    /\ Len(safety_log) = 1000
    /\ safety_log[1].details = next_id - 999

\* C6: a suspicious activity is appended only by an observation, one at a
\* time, only when the trailing-hour count after the append is above the
\* threshold (so not at exactly the threshold), and it records that count.
C6_EventOnlyAboveThreshold ==
    [][Len(suspicious_activities') > Len(suspicious_activities)
       => /\ next_id' = next_id + 1
          /\ Len(suspicious_activities') = Len(suspicious_activities) + 1
          /\ TrailingHourCount(safety_log', now') > Threshold
          /\ suspicious_activities'[Len(suspicious_activities')].activities_count
                = TrailingHourCount(safety_log', now')]_vars

\* C6 case: the first suspicious activity was appended at threshold + 1
\* entries of the last hour while the log also holds older entries.
C6_Witness ==
    /\ Len(suspicious_activities) = 1
    /\ suspicious_activities[1].activities_count = Threshold + 1
    /\ Len(safety_log) > Threshold + 1

\* C7: every task whose function an iteration invokes has its last_run set
\* to that iteration's time, whether the function returned or raised.
C7_LastRunSetEvenOnFailure ==
    [][\A i \in SeqToSet(dispatched') : tasks'[i].last_run = now]_vars

\* C8: a task's last_run never decreases, and it changes only in a step that
\* invoked the task's function: not on break, not outside the operational
\* hours, not when the task is not due.
C8_LastRunMonotoneOnlyOnRun ==
    [][\A i \in 1..Len(tasks) :
          tasks'[i].last_run # tasks[i].last_run
          => /\ tasks'[i].last_run > tasks[i].last_run
             /\ i \in SeqToSet(dispatched')
             /\ ~break_mode
             /\ is_within_operational_hours
             /\ TaskDue(tasks[i], now)]_vars

\* C8 case: an iteration invoked some task and left alone one that had run
\* before and was not due.
C8_Witness ==
    /\ dispatched # <<>>
    /\ \E i \in 1..Len(tasks) :
          tasks[i].last_run # None /\ i \notin SeqToSet(dispatched)

\* C9: in an iteration in which a task's function raises, every due task is
\* still invoked, and the loop stays in its loop, still running.
C9_RaiseDoesNotStopTick ==
    [][raised' # {}
       => /\ \A i \in 1..Len(tasks) :
                TaskDue(tasks[i], now) => i \in SeqToSet(dispatched')
          /\ pc = "loop" /\ pc' = "loop"
          /\ is_running']_vars

\* C9 case: a task raised and a task registered after it was invoked in the
\* same iteration.
C9_Witness ==
    \E i \in raised : \E k \in 1..Len(dispatched) : dispatched[k] > i

\* C10: in a running iteration a task is invoked exactly if its last_run is
\* unset or at least its interval old, and a task that was invoked is not
\* invoked again before its interval has passed since that invocation.
C10_DispatchIffDueAndSpaced ==
    [][/\ (pc = "loop" /\ pc' = "loop" /\ is_running /\ ~break_mode
             /\ now' = now + 60)
          => \A i \in 1..Len(tasks) :
                i \in SeqToSet(dispatched')
                <=> \/ tasks[i].last_run = None
                    \/ now - tasks[i].last_run >= tasks[i].interval * 60
       /\ \A i \in SeqToSet(dispatched') :
             \/ invoked_at[i] = None
             \/ now - invoked_at[i] >= tasks[i].interval * 60]_vars

\* C11: the registry never holds two tasks of the same name nor a task whose
\* interval is zero or negative, add_task having rejected such a registration
\* and left the registry as it was.
C11_RegistryRejectsInvalid ==
    /\ \A i, j \in 1..Len(tasks) : tasks[i].name = tasks[j].name => i = j
    /\ \A i \in 1..Len(tasks) : tasks[i].interval > 0

\* C12: stop() can be called in every state; a call leaves is_running false
\* and changes nothing else (not the tasks, their last_run, the break state,
\* the loop's position, the clock), so a second call in a row changes nothing
\* at all.
C12_StopIdempotent ==
    /\ [](ENABLED stop)
    /\ [][stop => /\ ~is_running'
                  /\ UNCHANGED <<now, auto_schedule_file, break_mode,
                                 last_break_time, tasks, invoked_at, pc,
                                 start_time, remaining>>
                  /\ (~is_running => UNCHANGED is_running)]_vars

\* C12 case: stop() was called in the middle of a break, with a task that
\* has run registered.
C12_Witness ==
    /\ ~is_running /\ pc = "break" /\ break_mode /\ remaining > 0
    /\ \E i \in 1..Len(tasks) : tasks[i].last_run # None

\* C13: the thread in start() tests is_running between sleeps of at most 60
\* seconds (no step of it sleeps longer), and once is_running is false it
\* sleeps no more and invokes no task: it leaves the break, then the loop.
C13_StopHonoredWithinShortSleep ==
    [][/\ now' - now <= 60
       /\ (~is_running /\ pc \in {"loop", "break"})
             => /\ now' = now
                /\ dispatched' = <<>>
                /\ pc' \in {pc, "loop", "done"}
                /\ (pc = "loop" => pc' \in {"loop", "done"})]_vars

\* the minute of the day at time t
MinuteOfDay(t) == (t % 86400) \div 60

\* the current minute lies between the first and the last minute of the
\* configured window, both included
InsideWindow ==
    LET hours == load_config.operational_hours
    IN /\ hours.start_time[1] * 60 + hours.start_time[2] <= MinuteOfDay(now)
       /\ MinuteOfDay(now) <= hours.end_time[1] * 60 + hours.end_time[2]

\* C14: with the window enabled the scheduler counts as inside it exactly
\* from the first to the last minute of the window, both included, whatever
\* the seconds; an iteration of the running loop outside it only waits 300
\* seconds (invokes no task, begins no break), and one inside it either runs
\* the tasks or begins a break.
C14_WindowInclusive ==
    /\ [](load_config.operational_hours.enabled
            => (is_within_operational_hours <=> InsideWindow))
    /\ [][(/\ pc = "loop" /\ is_running
           /\ load_config.operational_hours.enabled
           /\ (pc' # pc \/ now' # now))
          => IF InsideWindow
             THEN (pc' = "break" /\ now' = now) \/ (pc' = "loop" /\ now' = now + 60)
             ELSE /\ now' = now + 300
                  /\ dispatched' = <<>>
                  /\ pc' = "loop"
                  /\ UNCHANGED <<break_mode, tasks, start_time, remaining>>]_vars

\* C14 case: with the window 06:00-23:00 of the defaults, start() was called
\* at 06:00:00 and the first iteration invoked the task at once.
C14_Witness ==
    /\ auto_schedule_file = NoFile
    /\ start_time = 6 * 3600
    /\ now = 6 * 3600 + 60
    /\ dispatched = <<1>>
    /\ invoked_at[1] = 6 * 3600

\* C15: under the rule {after 60, break 15, enabled}, an iteration of the
\* running loop that finds the cycle at least 60 minutes old (61, say) with no
\* break taken before begins a break of 15 rounds and invokes no task; during
\* the break no task is invoked and each round sleeps one minute; when the
\* 15 rounds are over, break_mode is cleared, last_break_time and the cycle
\* start are set to the current time and the loop goes on running.
C15_BreakAfterAnHour ==
    [][/\ (/\ pc = "loop" /\ is_running /\ ~break_mode
           /\ is_within_operational_hours
           /\ last_break_time = None
           /\ now - start_time >= 60 * 60
           /\ (pc' # pc \/ now' # now))
          => /\ pc' = "break" /\ break_mode' /\ remaining' = 15
             /\ dispatched' = <<>> /\ now' = now
       /\ pc = "break"
          => /\ dispatched' = <<>>
             /\ remaining \in 0..15
             /\ now' # now => /\ now' = now + 60
                              /\ remaining > 0
                              /\ remaining' = remaining - 1
                              /\ break_mode' /\ pc' = "break"
             /\ (pc' # "break" /\ is_running)
                   => /\ remaining = 0
                      /\ pc' = "loop" /\ is_running'
                      /\ ~break_mode'
                      /\ last_break_time' = now
                      /\ start_time' = now]_vars

\* C15 case: the window opened 65 minutes after start(), the first iteration
\* inside it began the break, and the break is over 15 minutes later.
C15_Witness ==
    /\ auto_schedule_file = LateWindowSchedule
    /\ pc = "loop" /\ is_running /\ ~break_mode
    /\ last_break_time = BootTime + (65 + 15) * 60
    /\ start_time = last_break_time
    /\ now = last_break_time
    /\ \A i \in 1..Len(tasks) : tasks[i].last_run = None

\* rule i of the configured break rules qualifies: it is enabled, its
\* after_minutes have passed since the cycle started and, if a break has
\* ended before, since that break ended
RuleQualifies(i) ==
    LET rule == load_config.break_schedule[i]
    IN /\ rule.enabled
       /\ rule.after_minutes * 60 <= now - start_time
       /\ \/ last_break_time = None
          \/ rule.after_minutes * 60 <= now - last_break_time

\* C16: an iteration of the running loop (not on break, inside the
\* operational hours) begins the break of the first rule in configured order
\* that qualifies, for that rule's break_minutes; if no rule qualifies, as
\* when the only rules whose time has come are disabled, it begins no break.
C16_FirstQualifyingRule ==
    [][(/\ pc = "loop" /\ is_running /\ ~break_mode
        /\ is_within_operational_hours
        /\ (pc' # pc \/ now' # now))
       => LET rules == load_config.break_schedule
              qualifying == {i \in 1..Len(rules) : RuleQualifies(i)}
          IN IF qualifying = {}
             THEN pc' = "loop" /\ ~break_mode'
             ELSE \E i \in qualifying :
                     /\ \A j \in qualifying : i <= j
                     /\ pc' = "break" /\ break_mode'
                     /\ remaining' = rules[i].break_minutes]_vars

\* C16 case: a break was begun when the second and the third of three rules
\* qualified and the first, disabled, had its time come as well: the break
\* is the second rule's.
C16_Witness ==
    /\ Len(load_config.break_schedule) = 3
    /\ pc = "break" /\ is_running /\ break_mode
    /\ now - start_time = 3 * 60
    /\ remaining = load_config.break_schedule[2].break_minutes
    /\ remaining # load_config.break_schedule[3].break_minutes

\* C17: whatever the results of the attempts, a call of make_request makes
\* no more transport calls than the retries it was given.
C17_AttemptsWithinRetries ==
    request # NoRequest => Len(attempts) <= request.retries

\* C17 case: a call given the most retries has returned after using all of
\* them, its attempts having failed in more than one way.
C17_Witness ==
    /\ request # NoRequest /\ outcome # NoReturn
    /\ api_pc = "idle"
    /\ request.retries = MaxRetries
    /\ Len(attempts) = MaxRetries
    /\ ~outcome.success
    /\ \E i, j \in 1..Len(attempts) : attempts[i].result # attempts[j].result

\* a response that is not 2xx arrived in this step
Non2xxArrives ==
    /\ Len(attempts') = Len(attempts) + 1
    /\ attempts'[Len(attempts')].result = "response"
    /\ ~(200 <= attempts'[Len(attempts')].status_code
         /\ attempts'[Len(attempts')].status_code < 300)

\* C18 as claimed: a response that is not 2xx ends the call at once: a failure
\* is returned, no sleep is made and no further attempt follows.
C18_Non2xxNotRetried ==
    [][Non2xxArrives
       => /\ api_pc' = "idle"
          /\ outcome' # NoReturn /\ ~outcome'.success
          /\ backoffs' = backoffs /\ now' = now]_vars

\* C18 as amended: a response that is not 2xx is retried like a timeout:
\* while attempts are left the call sleeps 2 ** attempt seconds and goes on
\* to another attempt; only after the last attempt does it return, without
\* sleeping, a failure that names the retries and the last status.
C18_Non2xxRetriedWithBackoff ==
    [][Non2xxArrives
       => IF Len(attempts') < request.retries
          THEN /\ api_pc' = "attempt" /\ outcome' = NoReturn
               /\ backoffs' = Append(backoffs, 2 ^ Len(attempts))
               /\ now' = now + 2 ^ Len(attempts)
          ELSE /\ api_pc' = "idle"
               /\ outcome' # NoReturn /\ ~outcome'.success
               /\ outcome'.message = "Request failed after attempts. Status: "
               /\ outcome'.args = <<request.retries,
                                    attempts'[Len(attempts')].status_code>>
               /\ backoffs' = backoffs /\ now' = now]_vars

\* C18 case: a response that was not 2xx was followed, after a sleep, by a
\* further attempt that succeeded.
C18_Witness ==
    /\ Len(attempts) = 2
    /\ attempts[1].result = "response" /\ attempts[1].status_code = 500
    /\ attempts[2].result = "response" /\ attempts[2].status_code = 200
    /\ backoffs = <<1>>
    /\ outcome # NoReturn /\ outcome.success

\* C19: a call of make_request with a method it has no branch for makes no
\* transport call and no sleep and returns a failure naming the method; a
\* call of execute_social_action with a platform it has no branch for makes
\* no simulated platform call and returns a failure naming the platform.
C19_UnsupportedShortCircuits ==
    /\ (request # NoRequest
          /\ Upper(request.method) \notin {"GET", "POST", "PUT"})
         => /\ attempts = <<>> /\ backoffs = <<>>
            /\ api_pc = "idle"
                 => /\ outcome # NoReturn /\ ~outcome.success
                    /\ outcome.message = "Unsupported HTTP method: "
                    /\ outcome.args = <<request.method>>
    /\ (social_request # NoRequest
          /\ social_request.platform \notin {"facebook", "instagram", "twitter"})
         => /\ simulate_calls = 0
            /\ ~social_outcome.success
            /\ social_outcome.message = "Unsupported platform: "
            /\ social_outcome.args = <<social_request.platform>>

\* C19 case: both calls were made with an unsupported value and returned.
C19_Witness ==
    /\ request # NoRequest /\ request.method = "DELETE" /\ request.retries = 3
    /\ api_pc = "idle"
    /\ social_request # NoRequest /\ social_request.platform = "tiktok"

\* the message of a failure, by the result of the attempt it reports
FailureKind(result) ==
    CASE result = "Timeout" -> "Request timeout"
      [] result = "ConnectionError" -> "Connection error"
      [] result = "RequestException" -> "Request error: "
      [] result = "response" -> "Request failed after attempts. Status: "

\* C20: when a call has used all its retries and none succeeded, the
\* failure it returns is that of the last attempt (timeout, connection
\* error, other request error, or the status of the last response),
\* whatever the failures of the attempts before.
C20_LastFailureReported ==
    (/\ request # NoRequest /\ outcome # NoReturn
     /\ api_pc = "idle"
     /\ Len(attempts) = request.retries
     /\ ~outcome.success)
    => LET last == attempts[Len(attempts)]
       IN /\ outcome.message = FailureKind(last.result)
          /\ last.result = "response"
               => outcome.args = <<request.retries, last.status_code>>

\* C20 case: three attempts failed in three ways, the last by a connection
\* error, and that is the failure returned.
C20_Witness ==
    /\ Len(attempts) = 3
    /\ attempts[1].result = "response" /\ attempts[1].status_code = 500
    /\ attempts[2].result = "Timeout"
    /\ attempts[3].result = "ConnectionError"
    /\ outcome # NoReturn /\ outcome.message = "Connection error"

\* C21: whatever its arguments (no retries at all included) and whatever the
\* transport call does, a call of make_request that has ended has returned a
\* pair, and one whose first component is false unless the last attempt got a
\* 2xx response; a call of execute_social_action has returned a pair, false
\* unless the platform is supported and its simulated call succeeded.
C21_FailuresAreReturned ==
    /\ (request # NoRequest /\ api_pc = "idle")
         => /\ DOMAIN outcome = {"success", "message", "args"}
            /\ outcome.success
                 => /\ attempts # <<>>
                    /\ attempts[Len(attempts)].result = "response"
                    /\ attempts[Len(attempts)].status_code \in 200..299
    /\ social_request # NoRequest
         => /\ {"success", "message", "args"} \subseteq DOMAIN social_outcome
            /\ social_outcome.success
                 => /\ social_request.platform
                         \in {"facebook", "instagram", "twitter"}
                    /\ simulate_calls = 1

\* C21 case: make_request was called with no retries at all and returned the
\* failure of its outer except, having made no transport call.
C21_Witness ==
    /\ request # NoRequest /\ request.retries = 0
    /\ api_pc = "idle" /\ attempts = <<>>
    /\ DOMAIN outcome = {"success", "message", "args"}
    /\ ~outcome.success /\ outcome.message = "Unexpected error: "

\* the list given to batch_execute_actions holds dicts only
WellFormed(actions) == \A i \in 1..Len(actions) : actions[i] # NotADict

\* batch_execute_actions has returned
BatchReturned == batch_outcome # NoReturn /\ api_pc = "idle"

\* C22: a batch of well-formed requests returns true with exactly one outcome
\* for each request, the i-th outcome carrying the platform and the action
\* type of the i-th request; an empty batch returns no outcome.
C22_OneOutcomePerRequestInOrder ==
    (BatchReturned /\ WellFormed(batch_actions))
      => /\ batch_outcome.success
         /\ Len(batch_outcome.results) = Len(batch_actions)
         /\ \A i \in 1..Len(batch_actions) :
               /\ batch_outcome.results[i].platform
                    = batch_actions[i].platform
               /\ batch_outcome.results[i].action_type
                    = batch_actions[i].action_type

\* C22 case: a batch of two requests for different platforms has returned.
C22_Witness ==
    /\ BatchReturned /\ WellFormed(batch_actions)
    /\ Len(batch_actions) = 2
    /\ batch_actions[1].platform = "instagram"
    /\ batch_actions[2].platform = "facebook"
    /\ Len(batch_outcome.results) = 2

\* an iteration of the batch records an action that failed
RecordsFailure ==
    /\ api_pc = "batch"
    /\ batch_actions[batch_index + 1] # NotADict
    /\ social_outcome' # NoReturn /\ ~social_outcome'.success
    /\ batch_index' = batch_index + 1

\* C23: the iteration of a request that fails, by a platform error or for an
\* unsupported platform, records its outcome with success false after the
\* outcomes recorded before, and the batch goes on; when the batch returns,
\* every request has been given to execute_social_action and has its outcome.
C23_FailureDoesNotAbort ==
    /\ [][RecordsFailure
            => /\ Len(results') = Len(results) + 1
               /\ SubSeq(results', 1, Len(results)) = results
               /\ ~results'[Len(results')].success
               /\ api_pc' = "batch_pause"
               /\ batch_outcome' = NoReturn]_vars
    /\ []((BatchReturned /\ WellFormed(batch_actions))
            => /\ batch_index = Len(batch_actions)
               /\ batch_outcome.success
               /\ batch_outcome.results = results
               /\ \A i \in 1..Len(batch_actions) :
                     /\ i <= Len(results)
                     /\ batch_actions[i].platform \notin SupportedPlatforms
                          => ~results[i].success
                     /\ batch_actions[i].platform \in SupportedPlatforms
                          => "response_time" \in DOMAIN results[i].result)

\* C23 case: a batch has returned whose first request failed on an
\* unsupported platform and whose second request succeeded.
C23_Witness ==
    /\ BatchReturned /\ WellFormed(batch_actions)
    /\ Len(results) = 2
    /\ results[1].platform = "tiktok" /\ ~results[1].success
    /\ results[2].success

\* xs is a prefix of ys
IsPrefix(xs, ys) == Len(xs) <= Len(ys) /\ SubSeq(ys, 1, Len(xs)) = xs

\* C24: reset_monitoring empties the activity log and the list of suspicious
\* activities, and no other step does: an observation, a detection, a
\* suspension, a report or an iteration of the monitor loop leaves a
\* non-empty log non-empty and only ever appends to the suspicious list.
C24_OnlyResetClears ==
    /\ [](ENABLED reset_monitoring)
    /\ [][reset_monitoring
            => safety_log' = <<>> /\ suspicious_activities' = <<>>]_vars
    /\ [][~reset_monitoring
            => /\ IsPrefix(suspicious_activities, suspicious_activities')
               /\ safety_log # <<>> => safety_log' # <<>>]_vars

\* C24 case: a detection was made and suspended operations, the monitor loop
\* or the operator got a report that counts it, and a reset has since
\* emptied both lists.
C24_Witness ==
    /\ safety_events # <<>>
    /\ report # NoReturn /\ report.suspicious_activities_detected >= 1
    /\ monitor_threads > 0
    /\ safety_log = <<>> /\ suspicious_activities = <<>>

\* C25: with its file missing or not readable the monitor works with
\* threshold 10 and auto-suspend on, and the scheduler with the window
\* 06:00-23:00 enabled and the one break rule 60/15: every observation is
\* logged, a suspicious activity and a suspension come with exactly the
\* observations that make more than 10 in the hour, and the started
\* scheduler invokes tasks inside that window only.
C25_DefaultsWhenNotLoaded ==
    /\ [](load_safety_rules.safety_measures
            = [suspicious_activity_threshold |-> 10,
               auto_suspend_on_detection |-> TRUE])
    /\ [](load_config
            = [operational_hours |-> [start_time |-> <<6, 0>>,
                                      end_time |-> <<23, 0>>,
                                      enabled |-> TRUE],
               break_schedule |-> << [after_minutes |-> 60,
                                      break_minutes |-> 15,
                                      enabled |-> TRUE] >>])
    /\ [][next_id' = next_id + 1
            => /\ Len(safety_log') = Len(safety_log) + 1
               /\ IF TrailingHourCount(safety_log', now) > 10
                  THEN /\ Len(suspicious_activities')
                            = Len(suspicious_activities) + 1
                       /\ Len(safety_events') = Len(safety_events) + 1
                  ELSE UNCHANGED <<suspicious_activities,
                                   safety_events>>]_vars
    /\ [][dispatched' # <<>>
            => /\ 6 * 60 <= MinuteOfDay(now)
               /\ MinuteOfDay(now) <= 23 * 60]_vars
    /\ []((pc = "loop" /\ is_running /\ tasks # <<>>
            /\ 6 * 60 <= MinuteOfDay(now))
            => ENABLED TickRunTasks)

\* C25 case: neither file can be read, the eleventh observation of the hour
\* was reported and suspended operations, and the scheduler, started before
\* 06:00, has invoked its task inside the window.
C25_Witness ==
    /\ auto_schedule_file = UnreadableFile
    /\ safety_rules_file = UnreadableFile
    /\ Len(safety_log) = 11
    /\ Len(suspicious_activities) = 1 /\ Len(safety_events) = 1
    /\ start_time # None /\ start_time < 6 * SecondsPerHour
    /\ invoked_at # <<>> /\ invoked_at[1] # None

\* the schedule file holds a dict whose operational hours lack the enabled
\* flag or a time of the window
MalformedWindow ==
    /\ auto_schedule_file \notin {NoFile, UnreadableFile}
    /\ \/ "operational_hours" \notin DOMAIN auto_schedule_file
       \/ {"enabled", "start_time", "end_time"}
            \ DOMAIN auto_schedule_file.operational_hours # {}

\* C26: with such a file the check of the operational hours answers true at
\* every time of day, so the running loop never waits for the window: each
\* of its iterations begins a break or runs the tasks, every due task among
\* them, and the loop ends only when is_running was set to false.
C26_MalformedWindowIsOpen ==
    /\ [](MalformedWindow => is_within_operational_hours)
    /\ []((MalformedWindow /\ pc = "loop" /\ is_running)
            => /\ ~ENABLED TickOutsideHours
               /\ ENABLED TickBeginBreak \/ ENABLED TickRunTasks
               /\ (~break_mode /\ tasks # <<>> /\ tasks[1].last_run = None)
                    => TasksToRun = <<1>>)
    /\ [][(MalformedWindow /\ pc \in {"loop", "break"} /\ pc' = "done")
            => ~is_running]_vars

\* C26 case: the update of the settings manager's test left a window
\* 07:00-22:00 without its enabled flag, and the scheduler has invoked its
\* task before 07:00.
C26_Witness ==
    /\ MalformedWindow
    /\ "enabled" \notin DOMAIN auto_schedule_file.operational_hours
    /\ auto_schedule_file.operational_hours.start_time = <<7, 0>>
    /\ invoked_at # <<>> /\ invoked_at[1] # None
    /\ invoked_at[1] < 7 * SecondsPerHour
    /\ pc = "loop" /\ is_running

\* C27: at most one task function is in progress; the calls of a run_tasks
\* are made in registration order, each followed by its own return or raise
\* before the next call; and when a task is called, every due task
\* registered before it has been called and has returned or raised.
C27_OneTaskAtATime ==
    /\ Cardinality(in_function) <= 1
    /\ \A k \in 1..Len(task_events) :
          IF k % 2 = 1
          THEN /\ task_events[k][1] = "call"
               /\ task_events[k][2] \in due_at_begin
               /\ \A i \in due_at_begin :
                     i < task_events[k][2]
                       => \E m \in 1..(k - 1) :
                             /\ task_events[m][1] \in {"return", "raise"}
                             /\ task_events[m][2] = i
          ELSE /\ task_events[k][1] \in {"return", "raise"}
               /\ task_events[k][2] = task_events[k - 1][2]
    /\ \A k, l \in 1..Len(task_events) :
          (k < l /\ task_events[k][1] = "call" /\ task_events[l][1] = "call")
            => task_events[k][2] < task_events[l][2]

\* C27 case: two tasks were due; the first was called and raised, then the
\* second was called and has returned.
C27_Witness ==
    /\ pc = "tasks"
    /\ due_at_begin = {1, 2}
    /\ task_events = << <<"call", 1>>, <<"raise", 1>>,
                        <<"call", 2>>, <<"return", 2>> >>

\* an observation: a call of log_activity
ObserveStep == next_id' = next_id + 1

\* auto_suspend_on_detection of the rules in force
AutoSuspend == load_safety_rules.safety_measures.auto_suspend_on_detection

\* C28: a safety event is saved only by an observation that appended a
\* suspicious activity while auto-suspend is on, one event for the one
\* activity; with auto-suspend off an observation above the threshold
\* appends the suspicious activity and saves no event.
C28_SuspensionOnlyOnDetection ==
    /\ [][safety_events' # safety_events
            => /\ ObserveStep
               /\ Len(suspicious_activities')
                    = Len(suspicious_activities) + 1
               /\ AutoSuspend
               /\ Len(safety_events') = Len(safety_events) + 1]_vars
    /\ [][(ObserveStep /\ TrailingHourCount(safety_log', now) > Threshold)
            => /\ Len(suspicious_activities')
                    = Len(suspicious_activities) + 1
               /\ AutoSuspend
                    => Len(safety_events') = Len(safety_events) + 1
               /\ ~AutoSuspend => UNCHANGED safety_events]_vars

\* C28 case: auto-suspend is off, a suspicious activity was appended, and no
\* safety event was ever saved.
C28_Witness ==
    /\ ~AutoSuspend
    /\ suspicious_activities # <<>>
    /\ safety_events = <<>>
    /\ Len(safety_log) > Threshold

\* C29: while the list of suspicious activities is not empty, which it
\* stays until reset_monitoring, every report the operator or the monitor
\* loop gets counts at least one suspicious activity and has a status other
\* than "normal".
C29_DetectionsAreReported ==
    /\ [][(Report \/ MonitorLoopIteration) /\ suspicious_activities # <<>>
            => /\ report'.suspicious_activities_detected >= 1
               /\ report'.safety_status # "normal"]_vars
    /\ [][(suspicious_activities # <<>> /\ suspicious_activities' = <<>>)
            => reset_monitoring]_vars

\* C29 case: a minute or more after a detection, with nothing observed in
\* between, the latest report still says attention_required.
C29_Witness ==
    /\ suspicious_activities # <<>>
    /\ report # NoReturn
    /\ report.safety_status = "attention_required"
    /\ report.suspicious_activities_detected = Len(suspicious_activities)
    /\ now >= ParseTimestamp(suspicious_activities[1].detected_at)
                + SecondsPerMinute

\* C30: start() sets is_running and enters the loop; the loop is left only
\* with is_running false, which only stop() makes it, or by Ctrl-C, never by
\* a failing task, a break or the end of the operational hours; and once
\* stop() was called the loop is left.
C30_ExitsOnlyOnStop ==
    /\ [][start => is_running' /\ pc' = "loop"]_vars
    /\ [][(is_running /\ ~is_running') => stop]_vars
    /\ [][(pc \in {"loop", "break"} /\ pc' \notin {"loop", "break"})
            => /\ pc' = "done"
               /\ ~is_running \/ KeyboardInterrupt]_vars
    /\ (pc \in {"loop", "break"} /\ ~is_running) ~> (pc = "done")

\* C30 case: the scheduler ran its task, a run of it raising on the way, took
\* a break, was then stopped, and its loop has ended.
C30_Witness ==
    /\ pc = "done"
    /\ ~is_running
    /\ last_break_time # None
    /\ tasks # <<>> /\ tasks[1].last_run # None
    /\ invoked_at[1] > tasks[1].last_run

\* the sum of a sequence of numbers
RECURSIVE SumSeq(_)
SumSeq(xs) == IF xs = <<>> THEN 0 ELSE xs[1] + SumSeq(Tail(xs))

\* attempt number i of the call failed: an exception, or a response that is
\* not 2xx
AttemptFailed(i) ==
    \/ attempts[i].result # "response"
    \/ ~(attempts[i].status_code \in 200..299)

\* C31: the k-th sleep of a call (k = 0, 1, ...) lasts 2^k seconds; there
\* is one sleep for each failed attempt that was not the last one allowed
\* and none after that one, so a call with 3 retries sleeps at most
\* 1 + 2 = 3 seconds in all.
C31_BackoffSchedule ==
    request # NoRequest
      => /\ \A k \in 1..Len(backoffs) : backoffs[k] = 2 ^ (k - 1)
         /\ Len(backoffs)
              = Cardinality({i \in 1..Len(attempts) :
                               AttemptFailed(i) /\ i < request.retries})
         /\ SumSeq(backoffs) <= 2 ^ (request.retries - 1) - 1
         /\ request.retries = 3 => SumSeq(backoffs) <= 3

\* C31 case: a call with 3 retries has failed three times and returned,
\* having slept 1 and then 2 seconds and not after the third attempt.
C31_Witness ==
    /\ request # NoRequest /\ request.retries = 3
    /\ api_pc = "idle" /\ outcome # NoReturn /\ ~outcome.success
    /\ Len(attempts) = 3
    /\ backoffs = <<1, 2>>

StartedAt(i) ==
    results[i].timestamp
      - (IF "response_time" \in DOMAIN results[i].result
         THEN results[i].result.response_time ELSE 0)

\* C33: the actions of a batch are taken one after the other: an action is
\* given to execute_social_action only when the outcome of each action
\* before it is recorded, and no sooner than a pause of 1 to 2 seconds
\* after the outcome of the one before.
C33_SequentialWithPause ==
    /\ [](api_pc \in {"batch", "batch_pause"}
            => /\ Len(results) = batch_index
               /\ api_pc = "batch_pause" => batch_index >= 1)
    /\ [](\A i \in 1..(Len(results) - 1) :
            /\ StartedAt(i) <= results[i].timestamp
            /\ StartedAt(i + 1) >= results[i].timestamp + 1
            /\ StartedAt(i + 1) <= results[i].timestamp + 2)
    /\ [][(api_pc = "batch_pause" /\ api_pc' # "batch_pause")
            => /\ now' >= now + 1
               /\ UNCHANGED <<results, batch_index>>]_vars

\* C33 case: the second action of a batch was started 2 seconds after the
\* first one's outcome, the first having taken 3 seconds itself.
C33_Witness ==
    /\ Len(results) = 2
    /\ results[1].result.success
    /\ results[1].result.response_time = 3
    /\ StartedAt(2) = results[1].timestamp + 2

\* C34: the report a call of get_safety_report returns counts the entries
\* of the activity log, at most 1000, and the suspicious activities as they
\* are at the call, and lists the last five suspicious activities, or all of
\* them if they are fewer, in the order they were appended.
C34_ReportMirrorsState ==
    [][Report
       => LET n == Len(suspicious_activities)
              recent == report'.recent_suspicious_activities
          IN /\ report'.total_activities_monitored = Len(safety_log)
             /\ report'.total_activities_monitored <= 1000
             /\ report'.suspicious_activities_detected = n
             /\ Len(recent) = IF n < 5 THEN n ELSE 5
             /\ \A j \in 1..Len(recent) :
                   recent[j] = suspicious_activities[n - Len(recent) + j]]_vars

\* C34 case: a report made after seven detections counts seven and lists
\* the third to the seventh.
C34_Witness ==
    /\ Len(suspicious_activities) = 7
    /\ report # NoReturn
    /\ report.suspicious_activities_detected = 7
    /\ Len(report.recent_suspicious_activities) = 5
    /\ report.recent_suspicious_activities[1] = suspicious_activities[3]
    /\ report.recent_suspicious_activities[1] # suspicious_activities[1]

\* C35: break_mode is true only while the loop thread is inside take_break;
\* in every other state, also after a stop() during a break and after a
\* start() that follows it, break_mode is false.
C35_BreakModeOnlyInBreak == break_mode => pc = "break"

\* the time of day 0 from which the scheduler counts as inside its
\* operational hours: the start of the window, midnight if it is disabled
WindowOpensAt ==
    LET hours == load_config.operational_hours
    IN IF hours.enabled
       THEN hours.start_time[1] * SecondsPerHour
              + hours.start_time[2] * SecondsPerMinute
       ELSE 0

\* the seconds the current cycle has spent inside the operational hours
RunningSeconds ==
    now - (IF start_time > WindowOpensAt THEN start_time ELSE WindowOpensAt)

\* C36: a break begins only when the time the cycle has spent inside the
\* operational hours has reached the after_minutes of one of the enabled
\* break rules: the wait for the window does not count, so an iteration
\* that finds the window open after such a wait runs the tasks.
C36_WaitDoesNotCountForBreak ==
    [][(pc = "loop" /\ pc' = "break")
       => \E i \in 1..Len(load_config.break_schedule) :
             /\ load_config.break_schedule[i].enabled
             /\ RunningSeconds
                  >= load_config.break_schedule[i].after_minutes
                       * SecondsPerMinute]_vars

\* a step of log_activity, or reset_monitoring
WriterStep ==
    \/ LogActivityAppend("like", "facebook", next_id + 1)
    \/ LogActivityTrim
    \/ LogActivityCheck
    \/ reset_monitoring

\* C37: whatever the interleaving of log_activity's statements with the
\* report of the monitor thread, every step of get_safety_report, of the
\* monitor loop and of start_monitoring/stop_monitoring leaves safety_log and
\* suspicious_activities as they are; the two lists change only in a step of
\* log_activity (check_suspicious_activity included) or in reset_monitoring.
C37_SingleWriter ==
    /\ [][(Report \/ ReportRead \/ ReportStatus \/ MonitorSleep
             \/ MonitorLoopExit \/ start_monitoring \/ stop_monitoring)
           => UNCHANGED <<safety_log, suspicious_activities>>]_vars
    /\ [][~WriterStep => UNCHANGED <<safety_log, suspicious_activities>>]_vars

\* a report of the monitor thread half made while an observation is half
\* made: the log has grown since the report took its length
C37_Witness ==
    /\ rep_pc = "built"
    /\ obs_pc = "appended"
    /\ Len(suspicious_activities) > 0
    /\ report_draft.total_activities_monitored < Len(safety_log)

\* the rules file is there and can be read, but its safety measures lack the
\* threshold or the auto-suspend field
RulesLackField ==
    /\ safety_rules_file \notin {NoFile, UnreadableFile}
    /\ \/ ~ThresholdReadable(safety_rules_file)
       \/ ~AutoSuspendReadable(safety_rules_file)

\* C38: under a rules file that lacks the threshold or the auto-suspend
\* field, an observation that leaves 11 or more entries of the last hour in
\* the log appends a suspicious activity, as it does under the default
\* threshold 10.
C38_DegradesToDefaultThreshold ==
    [][(ObserveStep /\ RulesLackField
          /\ Cardinality(RecentActivities(safety_log', now)) >= 11)
       => Len(suspicious_activities') = Len(suspicious_activities) + 1]_vars

\* the window in force is enabled and starts later than it ends
OvernightWindow ==
    /\ WindowReadable(load_config)
    /\ load_config.operational_hours.enabled
    /\ ~HHMMLeq(load_config.operational_hours.start_time,
                load_config.operational_hours.end_time)

\* C39: under an enabled window that starts later than it ends,
\* is_within_operational_hours is false at every time of the day: a started
\* scheduler can always wait and does nothing else in its loop but sleep 300
\* seconds, it takes no break, and no task is ever invoked.
C39_OvernightWindowNeverOpens ==
    /\ [](OvernightWindow
            => /\ ~is_within_operational_hours
               /\ \A i \in 1..Len(invoked_at) : invoked_at[i] = None
               /\ dispatched = <<>>
               /\ pc # "break"
               /\ ~break_mode)
    /\ []((OvernightWindow /\ pc = "loop" /\ is_running)
            => ENABLED TickOutsideHours)
    /\ [][(OvernightWindow /\ pc = "loop" /\ pc' = "loop" /\ is_running')
           => /\ now' = now + 300
              /\ UNCHANGED <<tasks, invoked_at, dispatched>>]_vars

\* 23:30, inside what the window reads like: the scheduler started in the
\* morning is still waiting, its task never invoked
C39_Witness ==
    /\ OvernightWindow
    /\ pc = "loop"
    /\ is_running
    /\ ClockHHMM(now) = <<23, 30>>
    /\ Len(tasks) > 0
    /\ \A i \in 1..Len(invoked_at) : invoked_at[i] = None

\* the longest break of the enabled rules in force, in minutes
LongestBreak ==
    LET break_schedules == BreakSchedules(load_config)
        enabled == {k \in 1..Len(break_schedules) : break_schedules[k].enabled}
    IN IF enabled = {} THEN 0
       ELSE CHOOSE b \in {break_schedules[k].break_minutes : k \in enabled} :
               \A k \in enabled : break_schedules[k].break_minutes <= b

\* task i is registered, the scheduler is in its loop or on a break, and
\* the interval of the task and the longest break fit in the minutes left
TimeToDispatch(i) ==
    /\ i <= Len(tasks)
    /\ pc \in {"loop", "break"}
    /\ now + (tasks[i].interval + LongestBreak) * SecondsPerMinute
         <= BootTime + StarveMinutes * SecondsPerMinute

\* C40: with the window open, break rules of after_minutes >= 1 and a
\* scheduler that is never stopped, no break begins unless run_tasks() was
\* called since start() or since the break before began; and every
\* registered task is invoked again and again: from every moment that leaves
\* its interval and the longest break to run, a pass of run_tasks() that
\* invokes it follows.
C40_NoStarvationByBreaks ==
    /\ [][(pc = "loop" /\ pc' = "break") => ran_tasks]_vars
    /\ \A i \in 1..MaxTasks :
          TimeToDispatch(i) ~> (i \in SeqToSet(dispatched))

\* a break was taken and is over, and a task the latest step did not invoke
\* has the time left to be invoked again
C40_Witness ==
    /\ pc = "loop"
    /\ last_break_time # None
    /\ Len(tasks) = 2
    /\ \E i \in 1..Len(tasks) : TimeToDispatch(i) /\ i \notin SeqToSet(dispatched)
    /\ ran_tasks
    /\ \A i \in 1..Len(tasks) :
          invoked_at[i] # None /\ invoked_at[i] >= last_break_time

====
